---------------------------- MODULE Spec2Model ----------------------------
(***************************************************************************)
(* Model of the JSONL transcript parser of the api-server package          *)
(* (parser/jsonl-parser.ts): readJsonlContent, parseJsonlMessagesAsync,    *)
(* the content extractors and the tool summary formatters, together with   *)
(* a log writer that appends to the file and a caller that polls it.       *)
(*                                                                         *)
(* Representation.                                                         *)
(*  - A JavaScript value is a tagged tuple: <<"undefined">>, <<"null">>,   *)
(*    <<"boolean", b>>, <<"number", n>>, <<"string", chars>>,              *)
(*    <<"array", seq>>, <<"object", record>>.  A string is the sequence of *)
(*    its characters.  A property that an object lacks reads as undefined. *)
(*  - A thrown TypeError is the value TypeError; an operator that models a *)
(*    function returns it in place of the function's result.               *)
(*  - The log file is a sequence of bytes.  A byte is a cell <<k, i>>: the *)
(*    line break <<"nl", 0>>, the blank <<"sp", 0>>, or the i-th of the    *)
(*    LineWidth bytes of the JSON text named k.  JSON.parse succeeds on    *)
(*    exactly the complete texts (a proper prefix or suffix of a JSON      *)
(*    object text is never a JSON text).                                   *)
(***************************************************************************)
EXTENDS Integers, Sequences, FiniteSets, TLC

(***************************************************************************)
(* JavaScript values                                                       *)
(***************************************************************************)
Undefined == <<"undefined">>
Null == <<"null">>
TypeError == <<"TypeError">>
SyntaxError == <<"SyntaxError">>
JBool(b) == <<"boolean", b>>
JNum(n) == <<"number", n>>
JStr(s) == <<"string", s>>
JArr(a) == <<"array", a>>
JObj(r) == <<"object", r>>
EmptyObject == JObj([k \in {} |-> Undefined])

Tag(v) == v[1]
IsString(v) == Tag(v) = "string"
IsArray(v) == Tag(v) = "array"
IsNullish(v) == Tag(v) \in {"undefined", "null"}

\* a ?? b
Coalesce(a, b) == IF IsNullish(a) THEN b ELSE a

\* the truthiness of a value, as in `if (v)` and `v || w`
Truthy(v) ==
  CASE Tag(v) \in {"undefined", "null"} -> FALSE
    [] Tag(v) = "boolean" -> v[2]
    [] Tag(v) = "number" -> v[2] # 0
    [] Tag(v) = "string" -> v[2] # <<>>
    [] OTHER -> TRUE

\* v[k] for a value v that is not nullish: the property of an object, and
\* undefined on a primitive or an array for the keys the parser reads
Get(v, k) ==
  IF Tag(v) = "object" /\ k \in DOMAIN v[2] THEN v[2][k] ELSE Undefined

\* v?.[k]
OptGet(v, k) == IF IsNullish(v) THEN Undefined ELSE Get(v, k)

(***************************************************************************)
(* Strings                                                                 *)
(***************************************************************************)
RECURSIVE SplitAt(_, _, _, _)
SplitAt(s, sep, i, cur) ==
  IF i > Len(s) THEN <<cur>>
  ELSE IF s[i] = sep THEN <<cur>> \o SplitAt(s, sep, i + 1, <<>>)
  ELSE SplitAt(s, sep, i + 1, Append(cur, s[i]))

\* s.split(sep) for a one-character separator
Split(s, sep) == SplitAt(s, sep, 1, <<>>)

\* s.split(sep).pop()
LastPart(s, sep) == LET parts == Split(s, sep) IN parts[Len(parts)]

RECURSIVE Join(_, _)
\* parts.join(sep)
Join(parts, sep) ==
  IF parts = <<>> THEN <<>>
  ELSE IF Len(parts) = 1 THEN parts[1]
  ELSE parts[1] \o sep \o Join(Tail(parts), sep)

\* s.startsWith(p)
StartsWith(s, p) == Len(s) >= Len(p) /\ SubSeq(s, 1, Len(p)) = p

\* s.indexOf(c), 0-based, -1 when absent
IndexOf(s, c) ==
  IF \E i \in 1..Len(s) : s[i] = c
  THEN (CHOOSE i \in 1..Len(s) : s[i] = c /\ \A j \in 1..(i - 1) : s[j] # c) - 1
  ELSE -1

DigitChar(d) == <<"0", "1", "2", "3", "4", "5", "6", "7", "8", "9">>[d + 1]

RECURSIVE NumToStr(_)
\* String(n) for a non-negative integer
NumToStr(n) ==
  IF n < 10 THEN <<DigitChar(n)>> ELSE NumToStr(n \div 10) \o <<DigitChar(n % 10)>>

RECURSIVE ToStr(_)
\* `${v}`: the string a template literal makes of a value
ToStr(v) ==
  CASE Tag(v) = "string" -> v[2]
    [] Tag(v) = "number" -> NumToStr(v[2])
    [] Tag(v) = "boolean" ->
         IF v[2] THEN <<"t", "r", "u", "e">> ELSE <<"f", "a", "l", "s", "e">>
    [] Tag(v) = "null" -> <<"n", "u", "l", "l">>
    [] Tag(v) = "undefined" -> <<"u", "n", "d", "e", "f", "i", "n", "e", "d">>
    [] Tag(v) = "array" ->
         Join([i \in 1..Len(v[2]) |->
                 IF IsNullish(v[2][i]) THEN <<>> ELSE ToStr(v[2][i])], <<",">>)
    [] OTHER ->
         <<"[", "o", "b", "j", "e", "c", "t", " ", "O", "b", "j", "e", "c", "t", "]">>


(***************************************************************************)
(* String literals of the parser                                           *)
(***************************************************************************)
S_file == <<"f", "i", "l", "e">>
S_command == <<"c", "o", "m", "m", "a", "n", "d">>
S_pattern == <<"p", "a", "t", "t", "e", "r", "n">>
S_unknown == <<"u", "n", "k", "n", "o", "w", "n">>
S_Read == <<"R", "e", "a", "d">>
S_Edit == <<"E", "d", "i", "t">>
S_Edited == <<"E", "d", "i", "t", "e", "d">>
S_Write == <<"W", "r", "i", "t", "e">>
S_Created == <<"C", "r", "e", "a", "t", "e", "d">>
S_Bash == <<"B", "a", "s", "h">>
S_Ran == <<"R", "a", "n">>
S_Glob == <<"G", "l", "o", "b">>
S_Grep == <<"G", "r", "e", "p">>
S_on == <<" ", "o", "n", " ">>
S_lines == <<" ", "l", "i", "n", "e", "s">>
S_dots == <<".", ".", ".">>
S_PermissionRequested ==
  <<"P", "e", "r", "m", "i", "s", "s", "i", "o", "n", " ",
    "r", "e", "q", "u", "e", "s", "t", "e", "d">>
S_WaitingForInput ==
  <<"W", "a", "i", "t", "i", "n", "g", " ", "f", "o", "r", " ",
    "i", "n", "p", "u", "t">>
S_RequestInterrupted ==
  <<"[", "R", "e", "q", "u", "e", "s", "t", " ",
    "i", "n", "t", "e", "r", "r", "u", "p", "t", "e", "d">>

\* the length of the Bash command preview
BashPreviewLen == 50

(***************************************************************************)
(* Tool summary formatters.  Each returns a string value, or TypeError     *)
(* when the function throws (a method call on a value that lacks it).      *)
(***************************************************************************)
\* input["file_path"] ?? input["path"] ?? ""
FilePathOf(input) ==
  Coalesce(Coalesce(Get(input, "file_path"), Get(input, "path")), JStr(<<>>))

\* filePath.split("/").pop() ?? filePath, then `filename || "file"`
FileNameOr(filePath, dflt) ==
  LET filename == LastPart(filePath[2], "/")
  IN IF filename # <<>> THEN filename ELSE dflt

formatReadTool(input) ==
  LET filePath == FilePathOf(input)
  IN IF ~IsString(filePath) THEN TypeError
     ELSE JStr(S_Read \o <<" ">> \o FileNameOr(filePath, S_file))

\* LineCount without the test for the empty string: "".split("\n").length is 1
LineCountNoGuard(str) ==
  IF ~IsString(str) THEN -1 ELSE Len(Split(str[2], "\n"))

\* str ? str.split("\n").length : 0; -1 stands for the TypeError
LineCount(str) ==
  IF ~Truthy(str) THEN 0
  ELSE IF ~IsString(str) THEN -1
  ELSE Len(Split(str[2], "\n"))

Max(a, b) == IF a >= b THEN a ELSE b

formatEditTool(input) ==
  LET filePath == FilePathOf(input)
      oldStr == Coalesce(Get(input, "old_string"), JStr(<<>>))
      newStr == Coalesce(Get(input, "new_string"), JStr(<<>>))
      oldLines == LineCount(oldStr)
      newLines == LineCount(newStr)
      added == Max(0, newLines - oldLines)
      removed == Max(0, oldLines - newLines)
  IN IF ~IsString(filePath) \/ oldLines = -1 \/ newLines = -1 THEN TypeError
     ELSE JStr(S_Edited \o <<" ">> \o FileNameOr(filePath, S_file)
               \o <<" ", "+">> \o NumToStr(added)
               \o <<"/", "-">> \o NumToStr(removed) \o S_lines)

formatWriteTool(input) ==
  LET filePath == FilePathOf(input)
  IN IF ~IsString(filePath) THEN TypeError
     ELSE JStr(S_Created \o <<" ">> \o FileNameOr(filePath, S_file))

\* command.length > 50: the length of a string or an array; a number, boolean
\* or object of the log has no numeric length, and undefined > 50 is false
LongerThanPreview(command) ==
  Tag(command) \in {"string", "array"} /\ Len(command[2]) > BashPreviewLen

\* formatBashTool cutting the preview one character short
formatBashToolShortPreview(input) ==
  LET command == Coalesce(Get(input, "command"), JStr(<<>>))
  IN IF LongerThanPreview(command)
     THEN IF ~IsString(command) THEN TypeError
          ELSE JStr(S_Ran \o <<" ">> \o SubSeq(command[2], 1, BashPreviewLen - 1) \o S_dots)
     ELSE JStr(S_Ran \o <<" ">>
               \o (IF Truthy(command) THEN ToStr(command) ELSE S_command))

formatBashTool(input) ==
  LET command == Coalesce(Get(input, "command"), JStr(<<>>))
  IN IF LongerThanPreview(command)
     THEN IF ~IsString(command) THEN TypeError
          ELSE JStr(S_Ran \o <<" ">> \o SubSeq(command[2], 1, BashPreviewLen) \o S_dots)
     ELSE JStr(S_Ran \o <<" ">>
               \o (IF Truthy(command) THEN ToStr(command) ELSE S_command))

formatGlobTool(input) ==
  LET pattern == Coalesce(Get(input, "pattern"), JStr(<<>>))
  IN JStr(S_Glob \o <<" ">> \o (IF Truthy(pattern) THEN ToStr(pattern) ELSE S_pattern))

formatGrepTool(input) ==
  LET pattern == Coalesce(Get(input, "pattern"), JStr(<<>>))
  IN JStr(S_Grep \o <<" ">> \o (IF Truthy(pattern) THEN ToStr(pattern) ELSE S_pattern))

\* the default branch: "{toolName} on {target}", or the tool name itself
formatOtherTool(toolName, input) ==
  LET target == Coalesce(Coalesce(Coalesce(Get(input, "file_path"),
                                           Get(input, "path")),
                                  Get(input, "pattern")), JStr(<<>>))
  IN IF ~Truthy(target) THEN toolName
     ELSE IF ~IsString(target) THEN TypeError
     ELSE LET filename == LastPart(target[2], "/")
          IN IF filename # <<>>
             THEN JStr(ToStr(toolName) \o S_on \o filename)
             ELSE toolName

formatToolSummary(toolName, input) ==
  CASE toolName = JStr(S_Read) -> formatReadTool(input)
    [] toolName = JStr(S_Edit) -> formatEditTool(input)
    [] toolName = JStr(S_Write) -> formatWriteTool(input)
    [] toolName = JStr(S_Bash) -> formatBashTool(input)
    [] toolName = JStr(S_Glob) -> formatGlobTool(input)
    [] toolName = JStr(S_Grep) -> formatGrepTool(input)
    [] OTHER -> formatOtherTool(toolName, input)

(***************************************************************************)
(* Content extraction helpers                                              *)
(***************************************************************************)
\* `block.type` on a null block of a content array throws
BlockReadThrows(content) ==
  IsArray(content) /\ \E i \in 1..Len(content[2]) : IsNullish(content[2][i])

IsTextBlock(block) ==
  Get(block, "type") = JStr(<<"t", "e", "x", "t">>) /\ IsString(Get(block, "text"))

IsToolUseBlock(block) ==
  /\ Get(block, "type") = JStr(<<"t", "o", "o", "l", "_", "u", "s", "e">>)
  /\ IsString(Get(block, "name"))

RECURSIVE TextParts(_)
TextParts(blocks) ==
  IF blocks = <<>> THEN <<>>
  ELSE (IF IsTextBlock(Head(blocks)) THEN <<Get(Head(blocks), "text")[2]>> ELSE <<>>)
       \o TextParts(Tail(blocks))

\* the joined text, null when there is none, TypeError when a block is null
extractAssistantText(content) ==
  IF IsString(content) THEN content
  ELSE IF ~IsArray(content) THEN Null
  ELSE IF BlockReadThrows(content) THEN TypeError
  ELSE LET textParts == TextParts(content[2])
       IN IF Len(textParts) > 0 THEN JStr(Join(textParts, <<"\n">>)) ELSE Null

RECURSIVE ToolBlocks(_)
ToolBlocks(blocks) ==
  IF blocks = <<>> THEN <<>>
  ELSE (IF IsToolUseBlock(Head(blocks))
        THEN <<[name |-> Get(Head(blocks), "name"),
                input |-> Coalesce(Get(Head(blocks), "input"), EmptyObject)]>>
        ELSE <<>>)
       \o ToolBlocks(Tail(blocks))

\* the {name, input} pairs in block order; it throws when BlockReadThrows
extractToolUses(content) ==
  IF ~IsArray(content) THEN <<>> ELSE ToolBlocks(content[2])

isPermissionRequest(entry) ==
  LET permissionRequest ==
        JStr(<<"p", "e", "r", "m", "i", "s", "s", "i", "o", "n", "_",
               "r", "e", "q", "u", "e", "s", "t">>)
  IN \/ Get(entry, "type") = permissionRequest
     \/ Get(entry, "subtype") = permissionRequest

isInputRequest(entry) ==
  Get(entry, "subtype") =
    JStr(<<"i", "n", "p", "u", "t", "_", "r", "e", "q", "u", "e", "s", "t">>)

\* b => typeof b === "object" && b !== null && b.type === kind
HasBlockOfType(content, kind) ==
  /\ IsArray(content)
  /\ \E i \in 1..Len(content[2]) :
       Tag(content[2][i]) \in {"object", "array"} /\ Get(content[2][i], "type") = JStr(kind)

(***************************************************************************)
(* The body of the line loop for one parsed entry.  The result is          *)
(* [threw, msgs]: whether the body throws (the call then rejects), and the *)
(* messages it pushes.                                                     *)
(***************************************************************************)
Message(type, content, metadata, timestamp) ==
  [type |-> type, content |-> content, metadata |-> metadata, timestamp |-> timestamp]

Pushed(msgs) == [threw |-> FALSE, msgs |-> msgs]
Thrown == [threw |-> TRUE, msgs |-> <<>>]

\* PermissionBranch that prefers the message text to the permission_prompt
PermissionBranchTextFirst(entry, timestamp) ==
  LET text == extractAssistantText(OptGet(Get(entry, "message"), "content"))
      prompt == Get(entry, "permission_prompt")
  IN IF text = TypeError THEN Thrown
     ELSE Pushed(<<Message("permission_request",
                           Coalesce(Coalesce(text, prompt), JStr(S_PermissionRequested)),
                           EmptyObject, timestamp)>>)

PermissionBranch(entry, timestamp) ==
  LET text == extractAssistantText(OptGet(Get(entry, "message"), "content"))
      prompt == Get(entry, "permission_prompt")
  IN IF ~IsNullish(prompt)
     THEN Pushed(<<Message("permission_request", prompt, EmptyObject, timestamp)>>)
     ELSE IF text = TypeError THEN Thrown
     ELSE Pushed(<<Message("permission_request",
                           Coalesce(text, JStr(S_PermissionRequested)),
                           EmptyObject, timestamp)>>)

InputBranch(entry, timestamp) ==
  LET text == extractAssistantText(OptGet(Get(entry, "message"), "content"))
  IN IF text = TypeError THEN Thrown
     ELSE Pushed(<<Message("input_request", Coalesce(text, JStr(S_WaitingForInput)),
                           EmptyObject, timestamp)>>)

ToolSummaryMessage(toolName, toolInput, timestamp) ==
  Message("tool_summary", formatToolSummary(toolName, toolInput),
          JObj([toolName |-> toolName, toolInput |-> toolInput]), timestamp)

\* ToolUseBranch without the defaults for tool_name and tool_input
ToolUseBranchNoDefaults(entry, timestamp) ==
  LET toolName == Get(entry, "tool_name")
      toolInput == Get(entry, "tool_input")
      m == ToolSummaryMessage(toolName, toolInput, timestamp)
  IN IF m.content = TypeError THEN Thrown ELSE Pushed(<<m>>)

ToolUseBranch(entry, timestamp) ==
  LET toolName == Coalesce(Get(entry, "tool_name"), JStr(S_unknown))
      toolInput == Coalesce(Get(entry, "tool_input"), EmptyObject)
      m == ToolSummaryMessage(toolName, toolInput, timestamp)
  IN IF m.content = TypeError THEN Thrown ELSE Pushed(<<m>>)

\* AssistantBranch pushing the text response before the tool summaries
AssistantBranchTextFirst(entry, timestamp) ==
  LET msgContent == Get(Get(entry, "message"), "content")
      toolUses == extractToolUses(msgContent)
      summaries == [i \in 1..Len(toolUses) |->
                      ToolSummaryMessage(toolUses[i].name, toolUses[i].input, timestamp)]
      text == extractAssistantText(msgContent)
  IN IF BlockReadThrows(msgContent) THEN Thrown
     ELSE IF \E i \in 1..Len(summaries) : summaries[i].content = TypeError THEN Thrown
     ELSE Pushed((IF Truthy(text)
                  THEN <<Message("text_response", text, EmptyObject, timestamp)>>
                  ELSE <<>>) \o summaries)

AssistantBranch(entry, timestamp) ==
  LET msgContent == Get(Get(entry, "message"), "content")
      toolUses == extractToolUses(msgContent)
      summaries == [i \in 1..Len(toolUses) |->
                      ToolSummaryMessage(toolUses[i].name, toolUses[i].input, timestamp)]
      text == extractAssistantText(msgContent)
  IN IF BlockReadThrows(msgContent) THEN Thrown
     ELSE IF \E i \in 1..Len(summaries) : summaries[i].content = TypeError THEN Thrown
     ELSE Pushed(summaries \o
                 (IF Truthy(text)
                  THEN <<Message("text_response", text, EmptyObject, timestamp)>>
                  ELSE <<>>))

\* UserBranch that never reports images
UserBranchNoImages(entry, timestamp) ==
  LET msgContent == Get(Get(entry, "message"), "content")
      text == extractAssistantText(msgContent)
  IN IF Truthy(Get(entry, "isMeta")) THEN Pushed(<<>>)
     ELSE IF HasBlockOfType(msgContent,
                            <<"t", "o", "o", "l", "_", "r", "e", "s", "u", "l", "t">>)
          THEN Pushed(<<>>)
     ELSE IF text = TypeError THEN Thrown
     ELSE IF ~Truthy(text) THEN Pushed(<<>>)
     ELSE IF StartsWith(text[2], S_RequestInterrupted) THEN Pushed(<<>>)
     ELSE Pushed(<<Message("user_message", text, EmptyObject, timestamp)>>)

\* UserBranch without the tool_result test
UserBranchKeepsToolResult(entry, timestamp) ==
  LET msgContent == Get(Get(entry, "message"), "content")
      text == extractAssistantText(msgContent)
      hasImages == HasBlockOfType(msgContent, <<"i", "m", "a", "g", "e">>)
  IN IF Truthy(Get(entry, "isMeta")) THEN Pushed(<<>>)
     ELSE IF text = TypeError THEN Thrown
     ELSE IF ~Truthy(text) THEN Pushed(<<>>)
     ELSE IF StartsWith(text[2], S_RequestInterrupted) THEN Pushed(<<>>)
     ELSE Pushed(<<Message("user_message", text,
                           IF hasImages THEN JObj([hasImages |-> JBool(TRUE)])
                           ELSE EmptyObject,
                           timestamp)>>)

UserBranch(entry, timestamp) ==
  LET msgContent == Get(Get(entry, "message"), "content")
      text == extractAssistantText(msgContent)
      hasImages == HasBlockOfType(msgContent, <<"i", "m", "a", "g", "e">>)
  IN IF Truthy(Get(entry, "isMeta")) THEN Pushed(<<>>)
     ELSE IF HasBlockOfType(msgContent,
                            <<"t", "o", "o", "l", "_", "r", "e", "s", "u", "l", "t">>)
          THEN Pushed(<<>>)
     ELSE IF text = TypeError THEN Thrown
     ELSE IF ~Truthy(text) THEN Pushed(<<>>)
     ELSE IF StartsWith(text[2], S_RequestInterrupted) THEN Pushed(<<>>)
     ELSE Pushed(<<Message("user_message", text,
                           IF hasImages THEN JObj([hasImages |-> JBool(TRUE)])
                           ELSE EmptyObject,
                           timestamp)>>)

S_assistant == <<"a", "s", "s", "i", "s", "t", "a", "n", "t">>
S_user == <<"u", "s", "e", "r">>
S_tool_use == <<"t", "o", "o", "l", "_", "u", "s", "e">>

\* ClassifyEntry without the test of message.role
ClassifyEntryIgnoresRole(entry, now) ==
  LET timestamp == Coalesce(Get(entry, "timestamp"), now)
  IN IF isPermissionRequest(entry) THEN PermissionBranch(entry, timestamp)
     ELSE IF isInputRequest(entry) THEN InputBranch(entry, timestamp)
     ELSE IF Get(entry, "type") = JStr(S_tool_use) THEN ToolUseBranch(entry, timestamp)
     ELSE IF Get(entry, "type") = JStr(S_assistant) THEN AssistantBranch(entry, timestamp)
     ELSE IF Get(entry, "type") = JStr(S_user) THEN UserBranch(entry, timestamp)
     ELSE Pushed(<<>>)

\* ClassifyEntry stamping every message with the time of the parse
ClassifyEntryStampsNow(entry, now) ==
  LET timestamp == now
  IN IF isPermissionRequest(entry) THEN PermissionBranch(entry, timestamp)
     ELSE IF isInputRequest(entry) THEN InputBranch(entry, timestamp)
     ELSE IF Get(entry, "type") = JStr(S_tool_use) THEN ToolUseBranch(entry, timestamp)
     ELSE IF /\ Get(entry, "type") = JStr(S_assistant)
             /\ OptGet(Get(entry, "message"), "role") = JStr(S_assistant)
          THEN AssistantBranch(entry, timestamp)
     ELSE IF /\ Get(entry, "type") = JStr(S_user)
             /\ OptGet(Get(entry, "message"), "role") = JStr(S_user)
          THEN UserBranch(entry, timestamp)
     ELSE Pushed(<<>>)

\* ClassifyEntry with the tool_use test moved ahead of the request tests
ClassifyEntryToolFirst(entry, now) ==
  LET timestamp == Coalesce(Get(entry, "timestamp"), now)
  IN IF Get(entry, "type") = JStr(S_tool_use) THEN ToolUseBranch(entry, timestamp)
     ELSE IF isPermissionRequest(entry) THEN PermissionBranch(entry, timestamp)
     ELSE IF isInputRequest(entry) THEN InputBranch(entry, timestamp)
     ELSE IF /\ Get(entry, "type") = JStr(S_assistant)
             /\ OptGet(Get(entry, "message"), "role") = JStr(S_assistant)
          THEN AssistantBranch(entry, timestamp)
     ELSE IF /\ Get(entry, "type") = JStr(S_user)
             /\ OptGet(Get(entry, "message"), "role") = JStr(S_user)
          THEN UserBranch(entry, timestamp)
     ELSE Pushed(<<>>)

\* priority order: permission_request > input_request > tool_use > assistant > user
ClassifyEntry(entry, now) ==
  LET timestamp == Coalesce(Get(entry, "timestamp"), now)
  IN IF isPermissionRequest(entry) THEN PermissionBranch(entry, timestamp)
     ELSE IF isInputRequest(entry) THEN InputBranch(entry, timestamp)
     ELSE IF Get(entry, "type") = JStr(S_tool_use) THEN ToolUseBranch(entry, timestamp)
     ELSE IF /\ Get(entry, "type") = JStr(S_assistant)
             /\ OptGet(Get(entry, "message"), "role") = JStr(S_assistant)
          THEN AssistantBranch(entry, timestamp)
     ELSE IF /\ Get(entry, "type") = JStr(S_user)
             /\ OptGet(Get(entry, "message"), "role") = JStr(S_user)
          THEN UserBranch(entry, timestamp)
     ELSE Pushed(<<>>)

(***************************************************************************)
(* The log lines.  Each JSON text has a name; Parsed gives the value       *)
(* JSON.parse returns for it.  A name outside ParsedNames is a text that   *)
(* JSON.parse rejects.                                                     *)
(***************************************************************************)
T_Hi == <<"H", "i">>
T_ok == <<"o", "k">>
T_ls == <<"l", "s">>
T_path == <<"s", "/", "a", ".", "t", "s">>
T_ask == <<"R", "u", "n", "?">>
T_1 == JStr(<<"1">>)
T_2 == JStr(<<"2">>)

TextBlock(t) == JObj([type |-> JStr(<<"t", "e", "x", "t">>), text |-> JStr(t)])
ToolBlock(name, input) ==
  JObj([type |-> JStr(S_tool_use), name |-> JStr(name), input |-> input])
Msg(role, content) == JObj([role |-> JStr(role), content |-> content])
S_permission_request ==
  <<"p", "e", "r", "m", "i", "s", "s", "i", "o", "n", "_",
    "r", "e", "q", "u", "e", "s", "t">>
S_input_request == <<"i", "n", "p", "u", "t", "_", "r", "e", "q", "u", "e", "s", "t">>

Parsed(name) ==
  CASE name = "user" ->
         JObj([type |-> JStr(S_user), message |-> Msg(S_user, JStr(T_Hi)),
               timestamp |-> T_1])
    [] name = "asst" ->
         JObj([type |-> JStr(S_assistant),
               message |-> Msg(S_assistant,
                               JArr(<<TextBlock(T_ok),
                                      ToolBlock(S_Read, JObj([file_path |-> JStr(T_path)]))>>)),
               timestamp |-> T_1])
    [] name = "nullblock" ->
         JObj([type |-> JStr(S_assistant),
               message |-> Msg(S_assistant, JArr(<<Null, TextBlock(T_ok)>>))])
    [] name = "tool" ->
         JObj([type |-> JStr(S_tool_use), tool_name |-> JStr(S_Bash),
               tool_input |-> JObj([command |-> JStr(T_ls)]), timestamp |-> T_2])
    [] name = "toolperm" ->
         JObj([type |-> JStr(S_tool_use), subtype |-> JStr(S_permission_request),
               tool_name |-> JStr(S_Read),
               tool_input |-> JObj([file_path |-> JStr(T_path)])])
    [] name = "asstinput" ->
         JObj([type |-> JStr(S_assistant), subtype |-> JStr(S_input_request),
               message |-> Msg(S_assistant,
                               JArr(<<ToolBlock(S_Read, JObj([file_path |-> JStr(T_path)])),
                                      TextBlock(T_ask)>>))])
    [] name = "perminput" ->
         JObj([type |-> JStr(S_permission_request), subtype |-> JStr(S_input_request),
               permission_prompt |-> JStr(T_ask),
               message |-> Msg(S_assistant, JStr(T_ok))])
    [] name = "system" ->
         JObj([type |-> JStr(<<"s", "y", "s", "t", "e", "m">>)])
    [] name = "array" -> JArr(<<JNum(1), JNum(2)>>)
    [] name = "string" -> JStr(T_Hi)
    [] name = "number" -> JNum(42)
    [] name = "true" -> JBool(TRUE)
    [] name = "null" -> Null

ParsedNames ==
  {"user", "asst", "nullblock", "tool", "toolperm", "asstinput", "perminput", "system",
   "array", "string", "number", "true", "null"}

\* the bytes of one JSON text
LineWidth == 2

NL == <<"nl", 0>>
SP == <<"sp", 0>>
TextOf(name) == [i \in 1..LineWidth |-> <<name, i>>]

\* line.trim()
RECURSIVE Trim(_)
Trim(line) ==
  IF line = <<>> THEN <<>>
  ELSE IF Head(line) = SP THEN Trim(Tail(line))
  ELSE IF line[Len(line)] = SP THEN Trim(SubSeq(line, 1, Len(line) - 1))
  ELSE line

\* JSON.parse(trimmed): the value, or SyntaxError
JsonParse(trimmed) ==
  IF /\ Len(trimmed) = LineWidth
     /\ trimmed[1][1] \in ParsedNames
     /\ trimmed = TextOf(trimmed[1][1])
  THEN Parsed(trimmed[1][1])
  ELSE SyntaxError

(***************************************************************************)
(* parseJsonlMessagesAsync, after the read                                 *)
(***************************************************************************)
Returned(messages, bytesRead, origins) ==
  [status |-> "returned", messages |-> messages, bytesRead |-> bytesRead,
   origins |-> origins]
\* the promise rejects: the caller gets no ParseResult
Rejected == [status |-> "rejected", messages |-> <<>>, bytesRead |-> 0, origins |-> <<>>]
NoResult == [status |-> "none", messages |-> <<>>, bytesRead |-> 0, origins |-> <<>>]

\* whether the mid-file rule drops the first segment of the content
SkipsFirstLine(content, fromByte) == fromByte > 0 /\ IndexOf(content, NL) >= 0

\* SafeContent without the mid-file rule: the first segment is kept
SafeContentKeepsFirst(content, fromByte) == content

\* fromByte > 0 && firstNewline >= 0 ? content.slice(firstNewline + 1) : content
SafeContent(content, fromByte) ==
  IF SkipsFirstLine(content, fromByte)
  THEN SubSeq(content, IndexOf(content, NL) + 2, Len(content))
  ELSE content

\* the byte offset in the file at which the safe content starts
SafeStart(content, fromByte) ==
  IF SkipsFirstLine(content, fromByte) THEN fromByte + IndexOf(content, NL) + 1
  ELSE fromByte

\* LineBody without the try/catch around JSON.parse: a syntax error escapes
LineBodyNoCatch(line, now) ==
  LET trimmed == Trim(line)
      parsed == JsonParse(trimmed)
  IN IF trimmed = <<>> THEN Pushed(<<>>)
     ELSE IF parsed = SyntaxError THEN Thrown
     ELSE IF Tag(parsed) # "object" THEN Pushed(<<>>)
     ELSE ClassifyEntry(parsed, now)

\* one pass of the loop body: nothing for a blank line, a JSON syntax error
\* or a value that is not an object; else the classification of the entry
LineBody(line, now) ==
  LET trimmed == Trim(line)
      parsed == JsonParse(trimmed)
  IN IF trimmed = <<>> THEN Pushed(<<>>)
     ELSE IF parsed = SyntaxError THEN Pushed(<<>>)
     ELSE IF Tag(parsed) # "object" THEN Pushed(<<>>)
     ELSE ClassifyEntry(parsed, now)

\* LineLoop with unshift in place of push: later lines come first
RECURSIVE LineLoopUnshift(_, _, _, _)
LineLoopUnshift(lines, k, start, now) ==
  IF k > Len(lines) THEN [threw |-> FALSE, msgs |-> <<>>, origins |-> <<>>]
  ELSE LET body == LineBody(lines[k], now)
           rest == LineLoopUnshift(lines, k + 1, start + Len(lines[k]) + 1, now)
       IN IF body.threw \/ rest.threw
          THEN [threw |-> TRUE, msgs |-> <<>>, origins |-> <<>>]
          ELSE [threw |-> FALSE,
                msgs |-> rest.msgs \o body.msgs,
                origins |-> rest.origins \o [i \in 1..Len(body.msgs) |-> start]]

\* the loop over safeContent.split("\n"), from line k on; `start` is the
\* file offset of line k.  origins[i] is the file offset of the line that
\* pushed messages[i].
RECURSIVE LineLoop(_, _, _, _)
LineLoop(lines, k, start, now) ==
  IF k > Len(lines) THEN [threw |-> FALSE, msgs |-> <<>>, origins |-> <<>>]
  ELSE LET body == LineBody(lines[k], now)
           rest == LineLoop(lines, k + 1, start + Len(lines[k]) + 1, now)
       IN IF body.threw \/ rest.threw
          THEN [threw |-> TRUE, msgs |-> <<>>, origins |-> <<>>]
          ELSE [threw |-> FALSE,
                msgs |-> body.msgs \o rest.msgs,
                origins |-> [i \in 1..Len(body.msgs) |-> start] \o rest.origins]

\* the rest of parseJsonlMessagesAsync once readJsonlContent has returned
\* {content, bytesRead}
ParseContent(content, fromByte, bytesRead, now) ==
  IF content = <<>> THEN Returned(<<>>, bytesRead, <<>>)
  ELSE LET loop == LineLoop(Split(SafeContent(content, fromByte), NL), 1,
                            SafeStart(content, fromByte), now)
       IN IF loop.threw THEN Rejected
          ELSE Returned(loop.msgs, bytesRead, loop.origins)

\* ReadFailed without the catch in readJsonlContent: the I/O error escapes
ReadFailedRejects == Rejected

\* readJsonlContent returned null
ReadFailed == Returned(<<>>, 0, <<>>)

(***************************************************************************)
(* State                                                                   *)
(***************************************************************************)
VARIABLES
  file,        \* the bytes of the log file
  exists,      \* whether the path exists
  pc,          \* the call in progress: "idle" (none) or "read" (stat done)
  fromByte,    \* the fromByte argument of the latest call
  fileSize,    \* fileStat.size seen by the latest call
  result,      \* the outcome of the latest completed call
  calls,       \* the number of calls started
  callLimit,   \* the number of calls the caller makes
  nextFrom,    \* the offset the caller passes to its next call
  delivered,   \* file offsets of the lines whose messages some call returned
  redelivered, \* those returned by more than one call
  fresh,       \* no byte was appended since the size check of this call
  settled,     \* a call has returned whose size check saw the final file
  faults,      \* the number of I/O errors so far
  how,         \* how the latest call ended: "missing", "io_error", "no_data",
               \* "parsed" (the content was read and parsed), or "none"
  logEntry,    \* the parsed entry the loop body is run on (SpecEntry)
  emitted,     \* what the loop body did with it: [threw, msgs], or NotRun
  second,      \* a second call in progress on the same file (SpecConcurrent)
  handle,      \* the file handle of the call: "none", "open" or "closed" (SpecRead)
  pending,     \* what the try block of the read ended with, while the handle
               \* is being closed: NoRead, ReadThrew, or {content, bytesRead}
  servicesPromise, \* services.ts: the cached promise (the number of the
                   \* initialization it belongs to), 0 for null
  inits,       \* the runs of initServices: [inner, outer], the states of the
               \* promise of initServices and of the promise .catch returns
  got,         \* the promise getServices returned to each caller, 0 before the call
  saw,         \* what each caller's await of it gave: "none", "services", "failure"
  exited,      \* process.exit was called
  keyHash,     \* auth.ts: the hash given to createAuthMiddleware, Null for null
  req,         \* the request the middleware runs on: [method, path, apiKey]
  authPc,      \* "none", "start", "comparing" (awaiting bcrypt.compare), "done"
  compared,    \* how bcrypt.compare ended: "no", "resolved", "threw"
  res,         \* the responses sent with res.status(..).json(..): [status, code]
  nextCalled,  \* the number of calls of next()
  session,     \* sessions.ts: the session found: whether it has a PR, and whether
               \* an SCM plugin and an agent plugin are registered for it
  sessionPc,   \* the detail handler: "none", "start", "waiting" (in withTimeout), "sent"
  plugins,     \* the plugin calls getCISummary, getReviewDecision, getMergeability
               \* and getSessionInfo: "unused", "pending", "fulfilled", "rejected",
               \* and "fulfilled_no_cost" for a session info without a cost
  response,    \* the `response` object of the handler
  timer,       \* the timer of withTimeout: "unset", "armed", "fired", "cleared"
  replies      \* the responses sent: [status, body]

\* the state of the single-entry run and of the second call
\* the state of the services singleton
singleton == <<servicesPromise, inits, got, saw, exited>>

\* the state of the auth middleware
guard == <<keyHash, req, authPc, compared, res, nextCalled>>

\* the state of the session detail handler
detail == <<session, sessionPc, plugins, response, timer, replies>>

beside == <<logEntry, emitted, second, handle, pending, singleton, guard, detail>>

vars == <<file, exists, pc, fromByte, fileSize, result, calls, callLimit, nextFrom,
          delivered, redelivered, fresh, settled, faults, how, logEntry, emitted, second,
          handle, pending, servicesPromise, inits, got, saw, exited,
          keyHash, req, authPc, compared, res, nextCalled,
          session, sessionPc, plugins, response, timer, replies>>

\* the loop body has not run on logEntry
NotRun == [threw |-> FALSE, msgs |-> <<>>, pending |-> TRUE]

\* no second call.  pc is "none" (not made), "idle" (made, to start), "read"
\* (its size check is done) or "done"; how is as for the first call; seen is
\* the length of the file at its read; overlapped tells that the call began
\* while the first call was waiting for its read
NoSecond ==
  [pc |-> "none", fromByte |-> 0, fileSize |-> 0, seen |-> 0, how |-> "none",
   overlapped |-> FALSE, result |-> NoResult]

\* the try block of the offset read has not ended; it ended by throwing
NoRead == [ended |-> "no"]
ReadThrew == [ended |-> "threw"]

\* at most this many callers of getServices
MaxCallers == 3
Callers == 1..MaxCallers

\* no caller has called getServices
ServicesAtRest ==
  /\ servicesPromise = 0
  /\ inits = <<>>
  /\ got = [c \in Callers |-> 0]
  /\ saw = [c \in Callers |-> "none"]
  /\ exited = FALSE

\* no request has reached the auth middleware
NoRequest == [method |-> "", path |-> "", apiKey |-> Undefined]
AuthAtRest ==
  /\ keyHash = Null
  /\ req = NoRequest
  /\ authPc = "none"
  /\ compared = "no"
  /\ res = <<>>
  /\ nextCalled = 0

\* no request has reached the session detail handler
NoPlugins == [ci |-> "unused", review |-> "unused", merge |-> "unused", info |-> "unused"]
SessionAtRest ==
  /\ session = [pr |-> FALSE, scm |-> FALSE, agent |-> FALSE]
  /\ sessionPc = "none"
  /\ plugins = NoPlugins
  /\ response = Null
  /\ timer = "unset"
  /\ replies = <<>>

\* at most this many lines are appended to the log
MaxLines == 3
\* at most this many polls
MaxPolls == 3
\* at most this many I/O errors on an existing file
MaxFaults == 1

\* the texts the writer of the polled log appends
WriterTexts == {"user", "asst", "garbage", "nullblock"}

\* new Date().toISOString() during call number n
Now(n) == JStr(<<"9">> \o NumToStr(n))

Range(f) == {f[i] : i \in DOMAIN f}

(***************************************************************************)
(* The writer: an external process that appends to the log, a byte at a    *)
(* time (a read may see a line whose write is in progress).                *)
(***************************************************************************)
LastByte(f) == f[Len(f)]
CompleteLines(f) == Cardinality({i \in 1..Len(f) : f[i] = NL})

\* the writer starts a line with the first byte of a text, continues the
\* text it has begun, and ends the line with a line break
NextBytes(f) ==
  IF f = <<>> \/ LastByte(f) = NL
  THEN IF CompleteLines(f) < MaxLines THEN {<<name, 1>> : name \in WriterTexts} ELSE {}
  ELSE IF LastByte(f)[2] >= 1 /\ LastByte(f)[2] < LineWidth
       THEN {<<LastByte(f)[1], LastByte(f)[2] + 1>>}
  ELSE {NL}

AppendByte ==
  /\ \E b \in NextBytes(file) : file' = Append(file, b)
  /\ exists' = TRUE
  /\ fresh' = FALSE
  /\ settled' = FALSE
  /\ UNCHANGED <<pc, fromByte, fileSize, result, calls, callLimit, nextFrom,
                 delivered, redelivered, faults, how>>
  /\ UNCHANGED beside

(***************************************************************************)
(* A call parse(path, nextFrom), one action per await of readJsonlContent. *)
(* The caller passes the bytesRead of its previous result as the next      *)
(* fromByte; after a rejected call it has no result and keeps its offset.  *)
(***************************************************************************)
\* the call completes with outcome r
Complete(r, sawFinalFile, ending) ==
  /\ result' = r
  /\ how' = ending
  /\ pc' = "idle"
  /\ nextFrom' = IF r.status = "returned" THEN r.bytesRead ELSE nextFrom
  /\ delivered' = delivered \cup Range(r.origins)
  /\ redelivered' = redelivered \cup (delivered \cap Range(r.origins))
  /\ settled' = (r.status = "returned" /\ sawFinalFile)

Begin ==
  /\ pc = "idle"
  /\ calls < callLimit
  /\ calls' = calls + 1
  /\ fromByte' = nextFrom

\* a size check that asks for fileSize < fromByte
NoNewDataStrict(size, from) == size < from

\* fileSize <= fromByte
NoNewData(size, from) == size <= from

\* what readJsonlContent returns when fileSize <= fromByte
NoData(from) == [content |-> <<>>, bytesRead |-> from]

\* stat rejects with ENOENT: readJsonlContent returns null
StatMissing ==
  /\ Begin
  /\ ~exists
  /\ Complete(ReadFailed, TRUE, "missing")
  /\ fresh' = TRUE
  /\ UNCHANGED <<file, exists, fileSize, callLimit, faults>>
  /\ UNCHANGED beside

\* stat rejects with another I/O error
StatError ==
  /\ Begin
  /\ exists
  /\ faults < MaxFaults
  /\ faults' = faults + 1
  /\ Complete(ReadFailed, FALSE, "io_error")
  /\ fresh' = FALSE
  /\ UNCHANGED <<file, exists, fileSize, callLimit>>
  /\ UNCHANGED beside

\* stat succeeds and the file holds nothing beyond fromByte
StatNoNewData ==
  /\ Begin
  /\ exists
  /\ NoNewData(Len(file), nextFrom)
  /\ fileSize' = Len(file)
  /\ LET r == NoData(nextFrom)
     IN Complete(ParseContent(r.content, nextFrom, r.bytesRead, Now(calls + 1)),
                 TRUE, "no_data")
  /\ fresh' = TRUE
  /\ UNCHANGED <<file, exists, callLimit, faults>>
  /\ UNCHANGED beside

\* stat succeeds and there is new data: the call goes on to read
StatNewData ==
  /\ Begin
  /\ exists
  /\ ~NoNewData(Len(file), nextFrom)
  /\ fileSize' = Len(file)
  /\ pc' = "read"
  /\ fresh' = TRUE
  /\ UNCHANGED <<file, exists, result, callLimit, nextFrom, delivered, redelivered,
                 settled, faults, how>>
  /\ UNCHANGED beside

\* WholeFile reporting the length of what was read, not the size stat saw
WholeFileSizeAtRead(f, size) == [content |-> f, bytesRead |-> Len(f)]

\* what readJsonlContent returns, its bytesRead being the size stat saw
WholeFile(f, size) == [content |-> f, bytesRead |-> size]
FromOffset(f, from, size) == [content |-> SubSeq(f, from + 1, size), bytesRead |-> size]

\* fromByte === 0: readFile returns the file as it is now
ReadAll ==
  /\ pc = "read"
  /\ fromByte = 0
  /\ LET r == WholeFile(file, fileSize)
     IN Complete(ParseContent(r.content, fromByte, r.bytesRead, Now(calls)), fresh, "parsed")
  /\ UNCHANGED <<file, exists, fromByte, fileSize, calls, callLimit, fresh, faults>>
  /\ UNCHANGED beside

\* fromByte > 0: open, read fileSize - fromByte bytes at fromByte, close
ReadFromOffset ==
  /\ pc = "read"
  /\ fromByte > 0
  /\ LET r == FromOffset(file, fromByte, fileSize)
     IN Complete(ParseContent(r.content, fromByte, r.bytesRead, Now(calls)), fresh, "parsed")
  /\ UNCHANGED <<file, exists, fromByte, fileSize, calls, callLimit, fresh, faults>>
  /\ UNCHANGED beside

\* readFile, open or read rejects: readJsonlContent returns null
ReadError ==
  /\ pc = "read"
  /\ faults < MaxFaults
  /\ faults' = faults + 1
  /\ Complete(ReadFailed, FALSE, "io_error")
  /\ UNCHANGED <<file, exists, fromByte, fileSize, calls, callLimit, fresh>>
  /\ UNCHANGED beside

(***************************************************************************)
(* Spec: the polling protocol.  The log does not exist at first; the       *)
(* writer creates and extends it while the caller polls from offset 0.     *)
(***************************************************************************)
Init ==
  /\ file = <<>>
  /\ exists = FALSE
  /\ pc = "idle"
  /\ fromByte = 0
  /\ fileSize = 0
  /\ result = NoResult
  /\ calls = 0
  /\ callLimit = MaxPolls
  /\ nextFrom = 0
  /\ delivered = {}
  /\ redelivered = {}
  /\ fresh = FALSE
  /\ settled = FALSE
  /\ faults = 0
  /\ how = "none"
  /\ logEntry = Null
  /\ emitted = NotRun
  /\ second = NoSecond
  /\ handle = "none"
  /\ pending = NoRead
  /\ ServicesAtRest
  /\ AuthAtRest
  /\ SessionAtRest

Next ==
  \/ AppendByte
  \/ StatMissing
  \/ StatError
  \/ StatNoNewData
  \/ StatNewData
  \/ ReadAll
  \/ ReadFromOffset
  \/ ReadError

Spec == Init /\ [][Next]_vars

(***************************************************************************)
(* SpecParse: one call parse(path, fromByte) on a file and an offset drawn *)
(* from bounded sets; the file may grow between the size check and the     *)
(* read.                                                                   *)
(***************************************************************************)
\* at most this many lines in the file of a single call
MaxParseLines == 2
\* at most this many bytes are appended between the size check and the read
MaxGrowth == 1

\* the lines of such a file: every JSON text, a text JSON.parse rejects, the
\* empty line, a blank line, a text between blanks, a truncated text
ParseLineTexts ==
  {TextOf(name) : name \in ParsedNames \cup {"garbage"}}
    \cup {<<>>, <<SP>>, <<SP>> \o TextOf("user") \o <<SP>>, <<<<"user", 1>>>>}

RECURSIVE Terminated(_)
\* the lines, each followed by a line break
Terminated(lines) ==
  IF lines = <<>> THEN <<>> ELSE Head(lines) \o <<NL>> \o Terminated(Tail(lines))

StaticFiles ==
  LET seqs == UNION {[1..n -> ParseLineTexts] : n \in 0..MaxParseLines}
      full == {Terminated(ls) : ls \in seqs}
  IN full \cup {SubSeq(f, 1, Len(f) - 1) : f \in full \ {<<>>}}

InitParse ==
  /\ file \in StaticFiles
  /\ exists \in {TRUE, file # <<>>}
  /\ pc = "idle"
  /\ fromByte = 0
  /\ fileSize = 0
  /\ result = NoResult
  /\ calls = 0
  /\ callLimit = 1
  /\ nextFrom \in 0..(Len(file) + 1)
  /\ delivered = {}
  /\ redelivered = {}
  /\ fresh = FALSE
  /\ settled = FALSE
  /\ faults = 0
  /\ how = "none"
  /\ logEntry = Null
  /\ emitted = NotRun
  /\ second = NoSecond
  /\ handle = "none"
  /\ pending = NoRead
  /\ ServicesAtRest
  /\ AuthAtRest
  /\ SessionAtRest

\* the writer appends while the call waits for its read
GrowByte ==
  /\ pc = "read"
  /\ Len(file) < fileSize + MaxGrowth
  /\ AppendByte

NextParse ==
  \/ GrowByte
  \/ StatMissing
  \/ StatError
  \/ StatNoNewData
  \/ StatNewData
  \/ ReadAll
  \/ ReadFromOffset
  \/ ReadError

SpecParse == InitParse /\ [][NextParse]_vars

(***************************************************************************)
(* SpecEntry: the body of the line loop run on one parsed entry, drawn     *)
(* from the entries that the log format allows and from malformed ones.    *)
(***************************************************************************)
\* at most this many blocks in the content of a message
MaxBlocks == 3
\* a Bash command is at most this much longer than the preview
MaxExtra == 2

\* an object property that is present unless its value is undefined
Fld(k, v) == IF v = Undefined THEN EmptyObject[2] ELSE k :> v

T_x == <<"x", ".", "t", "s">>
T_ab == <<"a", "\n", "b">>
T_abc == <<"a", "\n", "b", "\n", "c">>
S_thinking == <<"t", "h", "i", "n", "k", "i", "n", "g">>
S_image == <<"i", "m", "a", "g", "e">>
S_tool_result == <<"t", "o", "o", "l", "_", "r", "e", "s", "u", "l", "t">>

\* the content blocks: text (also empty, and the interrupt marker), tool_use
\* (also without a name), thinking, image, tool_result, and null
EntryBlocks ==
  {TextBlock(T_ok), TextBlock(T_Hi), TextBlock(<<>>),
   TextBlock(S_RequestInterrupted \o <<"]">>),
   ToolBlock(S_Read, JObj([file_path |-> JStr(T_path)])),
   ToolBlock(S_Bash, JObj([command |-> JStr(T_ls)])),
   JObj([type |-> JStr(S_tool_use), input |-> EmptyObject]),
   JObj([type |-> JStr(S_thinking)]),
   JObj([type |-> JStr(S_image)]),
   JObj([type |-> JStr(S_tool_result)]),
   Null}

\* message.content: absent, a string, or a sequence of blocks
EntryContents ==
  {Undefined, JStr(<<>>), JStr(T_Hi), JStr(S_RequestInterrupted \o <<"]">>)}
    \cup {JArr(bs) : bs \in UNION {[1..n -> EntryBlocks] : n \in 0..MaxBlocks}}

EntryMessage(role, content) == JObj(("role" :> JStr(role)) @@ Fld("content", content))

AssistantEntries ==
  {JObj(("type" :> JStr(S_assistant)) @@ ("message" :> EntryMessage(S_assistant, c))
        @@ Fld("timestamp", ts) @@ Fld("subtype", st)) :
     c \in EntryContents, ts \in {Undefined, T_1},
     st \in {Undefined, JStr(S_input_request)}}

UserEntries ==
  {JObj(("type" :> JStr(S_user)) @@ ("message" :> EntryMessage(S_user, c))
        @@ Fld("timestamp", ts) @@ Fld("isMeta", meta)) :
     c \in EntryContents, ts \in {Undefined, T_1}, meta \in {Undefined, JBool(TRUE)}}

\* a Bash command of n characters
Cmd(n) == [i \in 1..n |-> DigitChar(i % 10)]

\* an old_string or new_string has at most this many lines
MaxEditLines == 3

\* a string of n lines
LinesText(n) == Join([i \in 1..n |-> <<"a">>], <<"\n">>)

\* old_string and new_string: absent, empty, a lone line break, 1..MaxEditLines lines
EditStrings ==
  {Undefined, JStr(<<>>), JStr(<<"\n">>)} \cup {JStr(LinesText(n)) : n \in 1..MaxEditLines}

EditInputs ==
  {JObj(("file_path" :> JStr(T_x)) @@ Fld("old_string", o) @@ Fld("new_string", n)) :
     o \in EditStrings, n \in EditStrings}

CmdLens ==
  {0, 1, BashPreviewLen - 1, BashPreviewLen, BashPreviewLen + 1, BashPreviewLen + MaxExtra}

ToolInputs ==
  {Undefined, EmptyObject, JStr(T_path),
   JObj([file_path |-> JStr(T_path)]), JObj([file_path |-> JNum(7)]),
   JObj([file_path |-> JStr(T_x), old_string |-> JStr(T_ab), new_string |-> JStr(T_abc)]),
   JObj([file_path |-> JStr(T_x), old_string |-> JNum(7)]),
   JObj([command |-> JNum(5)])}
    \cup {JObj([command |-> JStr(Cmd(n))]) : n \in CmdLens}
    \cup EditInputs

ToolEntries ==
  {JObj(("type" :> JStr(S_tool_use)) @@ Fld("tool_name", name) @@ Fld("tool_input", input)
        @@ Fld("timestamp", ts) @@ Fld("subtype", st)) :
     name \in {Undefined, JStr(S_Read), JStr(S_Bash), JStr(S_Edit), JStr(S_thinking), JStr(<<>>)},
     input \in ToolInputs, ts \in {Undefined, T_1, Null},
     st \in {Undefined, JStr(S_permission_request)}}

PermissionEntries ==
  {JObj(("type" :> JStr(S_permission_request)) @@ Fld("permission_prompt", prompt)
        @@ Fld("message", m) @@ Fld("timestamp", ts)) :
     prompt \in {Undefined, Null, JStr(<<>>), JStr(T_ask)},
     m \in {Undefined, EntryMessage(S_assistant, JStr(<<>>)), EntryMessage(S_assistant, JStr(T_ok)),
            EntryMessage(S_assistant, JArr(<<TextBlock(T_ok)>>))},
     ts \in {Undefined, T_1}}

\* entries no category matches: another type, or a role that does not fit
OtherEntries ==
  {JObj([type |-> JStr(<<"s", "y", "s", "t", "e", "m">>), timestamp |-> T_1]),
   JObj([type |-> JStr(<<"p", "r", "o", "g", "r", "e", "s", "s">>),
         message |-> EntryMessage(S_assistant, JArr(<<TextBlock(T_ok), Null>>))]),
   JObj([type |-> JStr(<<"s", "n", "a", "p", "s", "h", "o", "t">>),
         message |-> EntryMessage(S_user, JStr(T_Hi))]),
   EmptyObject,
   JObj([type |-> JStr(S_assistant), message |-> EntryMessage(S_user, JStr(T_Hi))]),
   JObj([type |-> JStr(S_assistant),
         message |-> EntryMessage(S_user, JArr(<<Null, TextBlock(T_ok)>>))]),
   JObj([type |-> JStr(S_assistant), message |-> Null]),
   JObj([type |-> JStr(S_assistant), message |-> JObj([content |-> JStr(T_Hi)])]),
   JObj([type |-> JStr(S_user), message |-> EntryMessage(S_assistant, JStr(T_Hi))]),
   JObj([type |-> JStr(S_user), message |-> JStr(T_Hi)]),
   JObj([type |-> JStr(S_user)])}

Entries ==
  AssistantEntries \cup UserEntries \cup ToolEntries \cup PermissionEntries \cup OtherEntries

InitEntry ==
  /\ logEntry \in Entries
  /\ emitted = NotRun
  /\ second = NoSecond
  /\ handle = "none"
  /\ pending = NoRead
  /\ ServicesAtRest
  /\ AuthAtRest
  /\ SessionAtRest
  /\ file = <<>>
  /\ exists = FALSE
  /\ pc = "idle"
  /\ fromByte = 0
  /\ fileSize = 0
  /\ result = NoResult
  /\ calls = 1
  /\ callLimit = 1
  /\ nextFrom = 0
  /\ delivered = {}
  /\ redelivered = {}
  /\ fresh = FALSE
  /\ settled = FALSE
  /\ faults = 0
  /\ how = "none"

\* one pass of the loop body, from the timestamp on, for the parsed entry
RunBody ==
  /\ "pending" \in DOMAIN emitted
  /\ emitted' = ClassifyEntry(logEntry, Now(calls))
  /\ UNCHANGED <<file, exists, pc, fromByte, fileSize, result, calls, callLimit, nextFrom,
                 delivered, redelivered, fresh, settled, faults, how, logEntry, second,
                 handle, pending, singleton, guard, detail>>

NextEntry == RunBody

SpecEntry == InitEntry /\ [][NextEntry]_vars

(***************************************************************************)
(* SpecConcurrent: two calls on the same file, started at any time, their  *)
(* awaits interleaved with each other and with the writer.                 *)
(***************************************************************************)
\* the writer appends at most this many bytes while two calls run
MaxConcurrentBytes == 6

\* the offsets the two callers pass: the start, mid-line, the second line
ConcurrentOffsets == {0, 1, LineWidth + 1}

\* CallResult with a messages array that the calls share
CallResultSharedMessages(r, other) ==
  [r EXCEPT !.messages = other.messages \o r.messages,
            !.origins = other.origins \o r.origins]

\* what a call returns: `messages` and `bytesRead` are locals of the call,
\* so nothing of the other call's result is in it
CallResult(r, other) == r

InitConcurrent ==
  /\ file = <<>>
  /\ exists = FALSE
  /\ pc = "idle"
  /\ fromByte = 0
  /\ fileSize = 0
  /\ result = NoResult
  /\ calls = 0
  /\ callLimit = 1
  /\ nextFrom \in ConcurrentOffsets
  /\ delivered = {}
  /\ redelivered = {}
  /\ fresh = FALSE
  /\ settled = FALSE
  /\ faults = 0
  /\ how = "none"
  /\ logEntry = Null
  /\ emitted = NotRun
  /\ handle = "none"
  /\ pending = NoRead
  /\ ServicesAtRest
  /\ AuthAtRest
  /\ SessionAtRest
  /\ \E from \in ConcurrentOffsets : second = [NoSecond EXCEPT !.pc = "idle", !.fromByte = from]

WriteByte ==
  /\ Len(file) < MaxConcurrentBytes
  /\ AppendByte

\* the second call's readJsonlContent up to its first await: stat
SecondStat ==
  /\ second.pc = "idle"
  /\ LET began == [second EXCEPT !.overlapped = (pc = "read"), !.seen = Len(file)]
     IN second' =
          IF ~exists
          THEN [began EXCEPT !.pc = "done", !.how = "missing",
                             !.result = CallResult(ReadFailed, result)]
          ELSE IF NoNewData(Len(file), second.fromByte)
          THEN [began EXCEPT !.pc = "done", !.how = "no_data", !.fileSize = Len(file),
                             !.result =
                               CallResult(ParseContent(NoData(second.fromByte).content,
                                                       second.fromByte,
                                                       NoData(second.fromByte).bytesRead,
                                                       Now(calls + 1)),
                                          result)]
          ELSE [began EXCEPT !.pc = "read", !.fileSize = Len(file)]
  /\ UNCHANGED <<file, exists, pc, fromByte, fileSize, result, calls, callLimit, nextFrom,
                 delivered, redelivered, fresh, settled, faults, how, logEntry, emitted,
                 handle, pending, singleton, guard, detail>>

\* the second call's read (readFile, or open, read and close) and its parse
SecondRead ==
  /\ second.pc = "read"
  /\ LET r == IF second.fromByte = 0 THEN WholeFile(file, second.fileSize)
              ELSE FromOffset(file, second.fromByte, second.fileSize)
     IN second' = [second EXCEPT
                     !.pc = "done", !.how = "parsed", !.seen = Len(file),
                     !.result = CallResult(ParseContent(r.content, second.fromByte,
                                                        r.bytesRead, Now(calls + 1)),
                                           result)]
  /\ UNCHANGED <<file, exists, pc, fromByte, fileSize, result, calls, callLimit, nextFrom,
                 delivered, redelivered, fresh, settled, faults, how, logEntry, emitted,
                 handle, pending, singleton, guard, detail>>

NextConcurrent ==
  \/ WriteByte
  \/ StatMissing
  \/ StatNoNewData
  \/ StatNewData
  \/ ReadAll
  \/ ReadFromOffset
  \/ SecondStat
  \/ SecondRead

SpecConcurrent == InitConcurrent /\ [][NextConcurrent]_vars

(***************************************************************************)
(* SpecRead: one call, with the offset read of readJsonlContent taken one  *)
(* await at a time: open, handle.read, and handle.close in the finally     *)
(* block.  Each of them may reject; the writer appends in between.         *)
(***************************************************************************)
\* the files of such a call: lines of the writer, the last one complete or not
ReadFiles ==
  LET seqs == UNION {[1..n -> {TextOf(name) : name \in WriterTexts}] : n \in 0..MaxParseLines}
      full == {Terminated(ls) : ls \in seqs}
  IN full \cup {SubSeq(f, 1, Len(f) - 1) : f \in full \ {<<>>}}

InitRead ==
  /\ file \in ReadFiles
  /\ exists \in {TRUE, file # <<>>}
  /\ pc = "idle"
  /\ fromByte = 0
  /\ fileSize = 0
  /\ result = NoResult
  /\ calls = 0
  /\ callLimit = 1
  /\ nextFrom \in 0..(Len(file) + 1)
  /\ delivered = {}
  /\ redelivered = {}
  /\ fresh = FALSE
  /\ settled = FALSE
  /\ faults = 0
  /\ how = "none"
  /\ logEntry = Null
  /\ emitted = NotRun
  /\ second = NoSecond
  /\ handle = "none"
  /\ pending = NoRead
  /\ ServicesAtRest
  /\ AuthAtRest
  /\ SessionAtRest

\* the writer appends while the call waits for its read, its handle or its close
GrowDuringCall ==
  /\ pc \in {"read", "opened", "closing"}
  /\ Len(file) < fileSize + MaxGrowth
  /\ \E b \in NextBytes(file) : file' = Append(file, b)
  /\ fresh' = FALSE
  /\ UNCHANGED <<exists, pc, fromByte, fileSize, result, calls, callLimit, nextFrom,
                 delivered, redelivered, settled, faults, how, logEntry, emitted, second,
                 handle, pending, singleton, guard, detail>>

\* open with the flag "w": the file is truncated
OpenedFileForWriting(f) == <<>>

\* the file once open(filePath, "r") has resolved: as it was
OpenedFile(f) == f

\* fromByte > 0: open resolves with a handle
OpenHandle ==
  /\ pc = "read"
  /\ fromByte > 0
  /\ pc' = "opened"
  /\ handle' = "open"
  /\ file' = OpenedFile(file)
  /\ UNCHANGED <<exists, fromByte, fileSize, result, calls, callLimit, nextFrom,
                 delivered, redelivered, fresh, settled, faults, how, logEntry, emitted,
                 second, pending, singleton, guard, detail>>

\* handle.read resolves: the try block ends with `return {content, bytesRead}`,
\* and the finally block is entered
HandleRead ==
  /\ pc = "opened"
  /\ pc' = "closing"
  /\ pending' = FromOffset(file, fromByte, fileSize)
  /\ UNCHANGED <<file, exists, fromByte, fileSize, result, calls, callLimit, nextFrom,
                 delivered, redelivered, fresh, settled, faults, how, logEntry, emitted,
                 second, handle, singleton, guard, detail>>

\* handle.read rejects: the finally block is entered with the error pending
HandleReadError ==
  /\ pc = "opened"
  /\ faults < MaxFaults
  /\ faults' = faults + 1
  /\ pc' = "closing"
  /\ pending' = ReadThrew
  /\ UNCHANGED <<file, exists, fromByte, fileSize, result, calls, callLimit, nextFrom,
                 delivered, redelivered, fresh, settled, how, logEntry, emitted,
                 second, handle, singleton, guard, detail>>

\* handle.close resolves: the pending return or error of the try block takes
\* effect, and the call goes on to parse or returns the failure result
HandleClose ==
  /\ pc = "closing"
  /\ handle' = "closed"
  /\ pending' = NoRead
  /\ IF pending = ReadThrew
     THEN Complete(ReadFailed, FALSE, "io_error")
     ELSE Complete(ParseContent(pending.content, fromByte, pending.bytesRead, Now(calls)),
                   fresh, "parsed")
  /\ UNCHANGED <<file, exists, fromByte, fileSize, calls, callLimit, fresh, faults,
                 logEntry, emitted, second, singleton, guard, detail>>

\* handle.close rejects: its error replaces the outcome of the try block
HandleCloseError ==
  /\ pc = "closing"
  /\ faults < MaxFaults
  /\ faults' = faults + 1
  /\ handle' = "closed"
  /\ pending' = NoRead
  /\ Complete(ReadFailed, FALSE, "io_error")
  /\ UNCHANGED <<file, exists, fromByte, fileSize, calls, callLimit, fresh,
                 logEntry, emitted, second, singleton, guard, detail>>

\* readFile (fromByte = 0) or open (fromByte > 0) rejects
ReadOrOpenError == ReadError

NextRead ==
  \/ GrowDuringCall
  \/ StatMissing
  \/ StatError
  \/ StatNoNewData
  \/ StatNewData
  \/ ReadAll
  \/ ReadOrOpenError
  \/ OpenHandle
  \/ HandleRead
  \/ HandleReadError
  \/ HandleClose
  \/ HandleCloseError

SpecRead == InitRead /\ [][NextRead]_vars

(***************************************************************************)
(* SpecServices: the services singleton (services.ts).  Callers call       *)
(* getServices at any time and await the promise they got; initServices    *)
(* runs up to its await, its promise settles, and the handler that .catch  *)
(* attached runs in a later microtask.                                     *)
(***************************************************************************)
\* the parser does nothing
ParserAtRest ==
  /\ file = <<>>
  /\ exists = FALSE
  /\ pc = "idle"
  /\ fromByte = 0
  /\ fileSize = 0
  /\ result = NoResult
  /\ calls = 0
  /\ callLimit = 0
  /\ nextFrom = 0
  /\ delivered = {}
  /\ redelivered = {}
  /\ fresh = FALSE
  /\ settled = FALSE
  /\ faults = 0
  /\ how = "none"
  /\ logEntry = Null
  /\ emitted = NotRun
  /\ second = NoSecond
  /\ handle = "none"
  /\ pending = NoRead

parserState ==
  <<file, exists, pc, fromByte, fileSize, result, calls, callLimit, nextFrom, delivered,
    redelivered, fresh, settled, faults, how, logEntry, emitted, second, handle, pending>>

InitServices == ParserAtRest /\ ServicesAtRest /\ AuthAtRest /\ SessionAtRest

\* a getServices that starts an initialization on every call
CachedNever(promise) == FALSE

\* the test `!servicesPromise` of getServices fails: a promise is cached
Cached(promise) == promise # 0

\* getServices with a cached promise: the caller gets that promise
GetCached(c) ==
  /\ ~exited
  /\ got[c] = 0
  /\ Cached(servicesPromise)
  /\ got' = [got EXCEPT ![c] = servicesPromise]
  /\ UNCHANGED <<servicesPromise, inits, saw, exited>>
  /\ UNCHANGED <<parserState, guard, detail>>

\* getServices with no cached promise: initServices runs up to its first
\* await (it throws before that when createPluginRegistry throws), .catch
\* attaches the handler, and the promise .catch returns is cached and returned
GetStartsInit(c) ==
  /\ ~exited
  /\ got[c] = 0
  /\ ~Cached(servicesPromise)
  /\ \E inner \in {"loading", "rejected"} :
       inits' = Append(inits, [inner |-> inner, outer |-> "pending"])
  /\ servicesPromise' = Len(inits) + 1
  /\ got' = [got EXCEPT ![c] = Len(inits) + 1]
  /\ UNCHANGED <<saw, exited>>
  /\ UNCHANGED <<parserState, guard, detail>>

\* getServices with no cached promise, and loadConfig throws: process.exit(1)
GetExits(c) ==
  /\ ~exited
  /\ got[c] = 0
  /\ ~Cached(servicesPromise)
  /\ exited' = TRUE
  /\ UNCHANGED <<servicesPromise, inits, got, saw>>
  /\ UNCHANGED <<parserState, guard, detail>>

\* registry.loadFromConfig resolves: the rest of initServices returns the
\* services, or throws
LoadResolves(i) ==
  /\ ~exited
  /\ inits[i].inner = "loading"
  /\ \E inner \in {"fulfilled", "rejected"} : inits' = [inits EXCEPT ![i].inner = inner]
  /\ UNCHANGED <<servicesPromise, got, saw, exited>>
  /\ UNCHANGED <<parserState, guard, detail>>

\* registry.loadFromConfig rejects: process.exit(1)
LoadExits(i) ==
  /\ ~exited
  /\ inits[i].inner = "loading"
  /\ exited' = TRUE
  /\ UNCHANGED <<servicesPromise, inits, got, saw>>
  /\ UNCHANGED <<parserState, guard, detail>>

\* the promise of initServices has settled: the promise .catch returned
\* fulfills with it, or its handler clears the cache and rethrows
CatchSettles(i) ==
  /\ ~exited
  /\ inits[i].inner \in {"fulfilled", "rejected"}
  /\ inits[i].outer = "pending"
  /\ inits' = [inits EXCEPT ![i].outer = inits[i].inner]
  /\ servicesPromise' = IF inits[i].inner = "rejected" THEN 0 ELSE servicesPromise
  /\ UNCHANGED <<got, saw, exited>>
  /\ UNCHANGED <<parserState, guard, detail>>

\* a caller's await of the promise it got ends
Awaited(c) ==
  /\ ~exited
  /\ got[c] # 0
  /\ saw[c] = "none"
  /\ inits[got[c]].outer # "pending"
  /\ saw' = [saw EXCEPT ![c] = IF inits[got[c]].outer = "fulfilled" THEN "services"
                                ELSE "failure"]
  /\ UNCHANGED <<servicesPromise, inits, got, exited>>
  /\ UNCHANGED <<parserState, guard, detail>>

NextServices ==
  \/ \E c \in Callers : GetCached(c)
  \/ \E c \in Callers : GetStartsInit(c)
  \/ \E c \in Callers : GetExits(c)
  \/ \E i \in DOMAIN inits : LoadResolves(i)
  \/ \E i \in DOMAIN inits : LoadExits(i)
  \/ \E i \in DOMAIN inits : CatchSettles(i)
  \/ \E c \in Callers : Awaited(c)

SpecServices == InitServices /\ [][NextServices]_vars

(***************************************************************************)
(* SpecAuth: the middleware createAuthMiddleware(keyHash) returns, run on  *)
(* one request (middleware/auth.ts).                                       *)
(***************************************************************************)
\* the number of API keys
MaxKeys == 2

\* the API keys, and the bcrypt hash of a key
ApiKey(n) == <<"k", DigitChar(n)>>
HashOf(key) == <<"hash", key>>
\* a non-empty string of auth.json that is no bcrypt hash
MalformedHash == <<"hash">>

\* what loadKeyHash returns
KeyHashes == {Null, MalformedHash} \cup {HashOf(ApiKey(n)) : n \in 1..MaxKeys}

S_health == <<"/", "a", "p", "i", "/", "v", "1", "/", "h", "e", "a", "l", "t", "h">>
S_sessions ==
  <<"/", "a", "p", "i", "/", "v", "1", "/", "s", "e", "s", "s", "i", "o", "n", "s">>

\* the requests: the x-api-key header is absent, empty, or a key
Requests ==
  [method : {"GET", "POST"},
   path : {S_health, S_sessions},
   apiKey : {Undefined, JStr(<<>>)} \cup {JStr(ApiKey(n)) : n \in 1..MaxKeys}]

InitAuth ==
  /\ ParserAtRest
  /\ ServicesAtRest
  /\ SessionAtRest
  /\ keyHash \in KeyHashes
  /\ req \in Requests
  /\ authPc = "start"
  /\ compared = "no"
  /\ res = <<>>
  /\ nextCalled = 0

\* an exemption for the health path whatever the method
IsExemptAnyMethod(r) == r.path = S_health

\* req.method === "GET" && req.path === "/api/v1/health"
IsExempt(r) == r.method = "GET" /\ r.path = S_health

\* typeof apiKey !== "string" || apiKey.length === 0
NoApiKey(r) == IF IsString(r.apiKey) THEN r.apiKey[2] = <<>> ELSE TRUE

\* what bcrypt.compare resolves to
BcryptCompare(apiKey, hash) == hash = HashOf(apiKey[2])

Json(status, code) == [status |-> status, code |-> code]

Ends(step) ==
  /\ authPc' = step
  /\ UNCHANGED <<keyHash, req>>
  /\ UNCHANGED <<parserState, singleton, detail>>

\* the health check: next() and return
AuthExempt ==
  /\ authPc = "start"
  /\ IsExempt(req)
  /\ nextCalled' = nextCalled + 1
  /\ UNCHANGED <<res, compared>>
  /\ Ends("done")

\* keyHash === null: 500
AuthNotConfigured ==
  /\ authPc = "start"
  /\ ~IsExempt(req)
  /\ keyHash = Null
  /\ res' = Append(res, Json(500, "AUTH_NOT_CONFIGURED"))
  /\ UNCHANGED <<nextCalled, compared>>
  /\ Ends("done")

\* no x-api-key header, or an empty one: 401
AuthMissingKey ==
  /\ authPc = "start"
  /\ ~IsExempt(req)
  /\ keyHash # Null
  /\ NoApiKey(req)
  /\ res' = Append(res, Json(401, "MISSING_API_KEY"))
  /\ UNCHANGED <<nextCalled, compared>>
  /\ Ends("done")

\* the middleware reaches `await bcrypt.compare(apiKey, keyHash)`
AuthCompare ==
  /\ authPc = "start"
  /\ ~IsExempt(req)
  /\ keyHash # Null
  /\ ~NoApiKey(req)
  /\ UNCHANGED <<res, nextCalled, compared>>
  /\ Ends("comparing")

\* bcrypt.compare resolves: 401 for a key that does not match, else next()
AuthCompared ==
  /\ authPc = "comparing"
  /\ compared' = "resolved"
  /\ IF BcryptCompare(req.apiKey, keyHash)
     THEN nextCalled' = nextCalled + 1 /\ res' = res
     ELSE res' = Append(res, Json(401, "INVALID_API_KEY")) /\ nextCalled' = nextCalled
  /\ Ends("done")

\* bcrypt.compare rejects: the catch block sends 401
AuthCompareThrows ==
  /\ authPc = "comparing"
  /\ compared' = "threw"
  /\ res' = Append(res, Json(401, "INVALID_API_KEY"))
  /\ UNCHANGED nextCalled
  /\ Ends("done")

NextAuth ==
  \/ AuthExempt
  \/ AuthNotConfigured
  \/ AuthMissingKey
  \/ AuthCompare
  \/ AuthCompared
  \/ AuthCompareThrows

SpecAuth == InitAuth /\ [][NextAuth]_vars

(***************************************************************************)
(* SpecSession: the handler of GET /api/v1/sessions/:id (routes/           *)
(* sessions.ts) from the point where sessionManager.get has resolved with  *)
(* a session.  A step is one turn of the event loop with the microtasks    *)
(* it queues: the handler up to its await, the settling of one plugin      *)
(* call, or the timer of withTimeout.                                      *)
(***************************************************************************)
InitSession ==
  /\ ParserAtRest
  /\ ServicesAtRest
  /\ AuthAtRest
  /\ session \in [pr : BOOLEAN, scm : BOOLEAN, agent : BOOLEAN]
  /\ sessionPc = "start"
  /\ plugins = NoPlugins
  /\ response = Null
  /\ timer = "unset"
  /\ replies = <<>>

\* toSessionDetailResponse: `pr` tells whether the response has a pr object;
\* its enrichment fields and the cost start at their defaults
toSessionDetailResponse(sess) ==
  [id |-> "s-1", pr |-> sess.pr, ciStatus |-> "none", reviewDecision |-> "none",
   mergeable |-> FALSE, cost |-> "null"]

Reply(status, body) == [status |-> status, body |-> body]

\* an enrichPR built on Promise.all: one rejected call rejects it, and the
\* fields keep their defaults
enrichPRFailFast(pl) ==
  IF "rejected" \in {pl.ci, pl.review, pl.merge}
  THEN [ciStatus |-> "none", reviewDecision |-> "none", mergeable |-> FALSE]
  ELSE [ciStatus |-> "passing", reviewDecision |-> "approved", mergeable |-> TRUE]

\* what enrichPR returns once Promise.allSettled has resolved
enrichPR(pl) ==
  [ciStatus |-> IF pl.ci = "fulfilled" THEN "passing" ELSE "none",
   reviewDecision |-> IF pl.review = "fulfilled" THEN "approved" ELSE "none",
   mergeable |-> pl.merge = "fulfilled"]

\* the three calls of enrichPR have settled (or were never made)
PrSettled(pl) == "pending" \notin {pl.ci, pl.review, pl.merge}

\* Promise.allSettled(enrichmentPromises) has resolved
AllSettled(pl) == PrSettled(pl) /\ pl.info # "pending"

\* the handler from the session to its await: the response is built and the
\* enrichments are started; without any the response is sent at once
StartDetail ==
  /\ sessionPc = "start"
  /\ LET pr == IF session.pr /\ session.scm THEN "pending" ELSE "unused"
         info == IF session.agent THEN "pending" ELSE "unused"
     IN /\ plugins' = [ci |-> pr, review |-> pr, merge |-> pr, info |-> info]
        /\ response' = toSessionDetailResponse(session)
        /\ IF pr = "unused" /\ info = "unused"
           THEN /\ replies' = Append(replies, Reply(200, toSessionDetailResponse(session)))
                /\ sessionPc' = "sent"
                /\ timer' = timer
           ELSE /\ replies' = replies
                /\ sessionPc' = "waiting"
                /\ timer' = "armed"
  /\ UNCHANGED session
  /\ UNCHANGED <<parserState, singleton, guard>>

\* the microtasks after a plugin call has settled: the .then callbacks have
\* left `response` as resp; when every enrichment has settled and the handler
\* still waits, withTimeout returns, the timer is cleared and res.json runs
AfterSettle(pl, resp) ==
  /\ plugins' = pl
  /\ response' = resp
  /\ IF sessionPc = "waiting" /\ AllSettled(pl)
     THEN /\ replies' = Append(replies, Reply(200, resp))
          /\ sessionPc' = "sent"
          /\ timer' = "cleared"
     ELSE UNCHANGED <<replies, sessionPc, timer>>
  /\ UNCHANGED session
  /\ UNCHANGED <<parserState, singleton, guard>>

\* getCISummary, getReviewDecision or getMergeability settles; with the last
\* of them enrichPR returns and its .then callback sets the pr fields
ScmSettles(call) ==
  /\ plugins[call] = "pending"
  /\ \E outcome \in {"fulfilled", "rejected"} :
       LET pl == [plugins EXCEPT ![call] = outcome]
           prData == enrichPR(pl)
       IN AfterSettle(pl,
                      IF PrSettled(pl) /\ response.pr
                      THEN [response EXCEPT !.ciStatus = prData.ciStatus,
                                            !.reviewDecision = prData.reviewDecision,
                                            !.mergeable = prData.mergeable]
                      ELSE response)

\* getSessionInfo settles: getAgentCost returns the cost or null and its
\* .then callback sets agentInfo.cost, or it rejects
AgentSettles ==
  /\ plugins.info = "pending"
  /\ \E outcome \in {"fulfilled", "fulfilled_no_cost", "rejected"} :
       AfterSettle([plugins EXCEPT !.info = outcome],
                   IF outcome = "fulfilled" THEN [response EXCEPT !.cost = "cost"]
                   ELSE IF outcome = "fulfilled_no_cost" THEN [response EXCEPT !.cost = "null"]
                   ELSE response)

\* the timer of withTimeout fires: the race resolves with undefined and
\* res.json sends `response` as it is
TimerFires ==
  /\ timer = "armed"
  /\ timer' = "fired"
  /\ replies' = Append(replies, Reply(200, response))
  /\ sessionPc' = "sent"
  /\ UNCHANGED <<session, plugins, response>>
  /\ UNCHANGED <<parserState, singleton, guard>>

NextSession ==
  \/ StartDetail
  \/ \E call \in {"ci", "review", "merge"} : ScmSettles(call)
  \/ AgentSettles
  \/ TimerFires

\* the handler runs when the session is found, and an armed timer fires
SpecSession ==
  InitSession /\ [][NextSession]_vars /\ WF_vars(StartDetail) /\ WF_vars(TimerFires)

(***************************************************************************)
(* Properties.  The segmentation of the file used to state them is defined *)
(* here on the bytes of the file, independently of the parser's own split. *)
(***************************************************************************)
\* the offsets at which a segment starts when bytes [from, to) of f are cut
\* at line breaks
SegStarts(f, from, to) == {from} \cup {i \in (from + 1)..to : f[i] = NL}

\* the index of the last byte of the segment that starts at offset o
SegEnd(f, o, to) ==
  IF \E i \in (o + 1)..to : f[i] = NL
  THEN (CHOOSE i \in (o + 1)..to :
          f[i] = NL /\ \A j \in (o + 1)..(i - 1) : f[j] # NL) - 1
  ELSE to

SegmentAt(f, o, to) == SubSeq(f, o + 1, SegEnd(f, o, to))

\* a line the parser is to skip on its own: blank, not JSON, or not an object
Skippable(line) ==
  \/ Trim(line) = <<>>
  \/ JsonParse(Trim(line)) = SyntaxError
  \/ Tag(JsonParse(Trim(line))) # "object"

\* the end of the content the latest call read, when it read any
ContentEnd == IF fromByte = 0 THEN Len(file) ELSE fileSize

\* no call is in progress and the latest one ended the way `ending` names
Completed(ending) == pc = "idle" /\ how = ending

\* the latest call read content, parsed it and returned
ParsedAndReturned == Completed("parsed") /\ result.status = "returned"

\* the offset of the first segment the latest call parsed
ParsedFrom ==
  IF fromByte > 0 /\ \E i \in (fromByte + 1)..ContentEnd : file[i] = NL
  THEN SegEnd(file, fromByte, ContentEnd) + 1
  ELSE fromByte

\* the types of the messages of the result that come from the line at o
TypesAt(o) ==
  LET idx == {i \in DOMAIN result.origins : result.origins[i] = o}
      first == CHOOSE i \in idx : \A j \in idx : i <= j
  IN [k \in 1..Cardinality(idx) |-> result.messages[first + k - 1].type]

\* C1: every call completes by returning a ParseResult; none rejects,
\* whatever the lines of the file hold.
C1_NeverRejects == result.status # "rejected"

\* C2: under the polling protocol and without I/O errors, once the writer
\* has stopped and a poll that saw the final file has returned, every
\* complete line that classifies to at least one message has had its
\* messages returned by some poll.
C2_NoGaps ==
  (settled /\ faults = 0) =>
    \A o \in SegStarts(file, 0, Len(file)) :
      LET line == SegmentAt(file, o, Len(file))
      IN (/\ SegEnd(file, o, Len(file)) < Len(file)
          /\ ~LineBody(line, Now(0)).threw
          /\ LineBody(line, Now(0)).msgs # <<>>) => o \in delivered

\* C3: under the polling protocol and without I/O errors, no line has its
\* messages returned by more than one poll.
C3_NoReprocessing == faults = 0 => redelivered = {}

\* C4: a call on an existing readable file returns as bytesRead the size the
\* size check saw when that size exceeds fromByte, and returns fromByte with
\* no messages when it does not.
C4_BytesRead ==
  /\ ParsedAndReturned => result.bytesRead = fileSize /\ fileSize > fromByte
  /\ Completed("no_data") =>
       /\ result.status = "returned"
       /\ result.bytesRead = fromByte
       /\ result.messages = <<>>
       /\ fileSize <= fromByte

C4_Witness ==
  /\ ParsedAndReturned
  /\ Len(file) > fileSize
  /\ fromByte = 0
  /\ result.messages # <<>>

\* C5: a call on a missing path, or one whose size check or read fails,
\* returns no messages and bytesRead 0 and does not reject.
C5_IoFailure ==
  (Completed("missing") \/ Completed("io_error")) =>
    /\ result.status = "returned"
    /\ result.messages = <<>>
    /\ result.bytesRead = 0

C5_Witness == Completed("missing") /\ fromByte = 0 /\ result.status = "returned"

\* C6: with fromByte > 0 no returned message comes from the first segment of
\* the content (the one that starts at fromByte); with fromByte = 0 every
\* segment that yields messages has them returned.
C6_FirstSegmentDropped ==
  ParsedAndReturned =>
    /\ fromByte > 0 => \A i \in DOMAIN result.origins : result.origins[i] # fromByte
    /\ fromByte = 0 =>
         \A o \in SegStarts(file, 0, ContentEnd) :
           LineBody(SegmentAt(file, o, ContentEnd), Now(calls)).msgs # <<>>
             => \E i \in DOMAIN result.origins : result.origins[i] = o

RECURSIVE MessagesFrom(_, _, _, _)
\* the messages of the lines of bytes [o, to) of f, in file order
MessagesFrom(f, o, to, now) ==
  IF o >= to THEN <<>>
  ELSE LineBody(SegmentAt(f, o, to), now).msgs
         \o MessagesFrom(f, SegEnd(f, o, to) + 1, to, now)

\* some line of bytes [o, to) of f makes the classifier throw
AnyThrows(f, o, to) ==
  \E s \in SegStarts(f, o, to) : LineBody(SegmentAt(f, s, to), Now(0)).threw

\* the latest call resumed at the start of a line of a file of complete lines
C7_AtLineStart ==
  /\ Completed("parsed")
  /\ fromByte > 0
  /\ file[fromByte] = NL
  /\ file[fileSize] = NL

\* C7: a call whose fromByte > 0 is the offset at which line k+1 of a file
\* of newline-terminated lines starts returns exactly the messages of lines
\* k+2..n, in order (line k+1 is dropped); it returns whenever none of those
\* lines makes the classifier throw.
C7_ResumeDropsOneLine ==
  C7_AtLineStart =>
    LET next == SegEnd(file, fromByte, fileSize) + 1
    IN /\ result.status = "returned" =>
            result.messages = MessagesFrom(file, next, fileSize, Now(calls))
       /\ ~AnyThrows(file, next, fileSize) => result.status = "returned"

C7_Witness ==
  /\ C7_AtLineStart
  /\ result.status = "returned"
  /\ result.messages # <<>>
  /\ LineBody(SegmentAt(file, fromByte, fileSize), Now(calls)).msgs # <<>>

RECURSIVE KeptLines(_, _, _)
\* bytes [o, to) of f without the lines to skip
KeptLines(f, o, to) ==
  IF o > to THEN <<>>
  ELSE (IF Skippable(SegmentAt(f, o, to)) THEN <<>> ELSE SegmentAt(f, o, to) \o <<NL>>)
         \o KeptLines(f, SegEnd(f, o, to) + 1, to)

\* C8: blank lines, lines that are not JSON and JSON values that are not
\* objects are skipped one by one: a call from offset 0 ends as it would on
\* the same file with those lines removed, with the same messages.
C8_BadLinesSkipped ==
  (Completed("parsed") /\ fromByte = 0) =>
    LET clean == KeptLines(file, 0, Len(file))
        r == ParseContent(clean, 0, Len(clean), Now(calls))
    IN result.status = r.status /\ result.messages = r.messages

C8_Witness ==
  /\ ParsedAndReturned
  /\ fromByte = 0
  /\ \E o \in SegStarts(file, 0, Len(file)) :
       /\ JsonParse(Trim(SegmentAt(file, o, Len(file)))) = SyntaxError
       /\ \E i \in DOMAIN result.origins : result.origins[i] > o

\* C9: the returned messages are in the order of the lines that produced
\* them, and each is a message of the line it is attributed to.
C9_SourceOrder ==
  ParsedAndReturned =>
    /\ \A i, j \in DOMAIN result.origins : i < j => result.origins[i] <= result.origins[j]
    /\ \A i \in DOMAIN result.messages :
         LET body == LineBody(SegmentAt(file, result.origins[i], ContentEnd), Now(calls))
         IN \E k \in DOMAIN body.msgs : body.msgs[k] = result.messages[i]

C9_Witness ==
  /\ ParsedAndReturned
  /\ \E i, j \in DOMAIN result.origins : i < j /\ result.origins[i] < result.origins[j]

\* the message types the first matching category of an entry may emit
CategoryRule(entry, types) ==
  IF isPermissionRequest(entry) THEN types = <<"permission_request">>
  ELSE IF isInputRequest(entry) THEN types = <<"input_request">>
  ELSE IF Get(entry, "type") = JStr(S_tool_use) THEN types = <<"tool_summary">>
  ELSE IF /\ Get(entry, "type") = JStr(S_assistant)
          /\ OptGet(Get(entry, "message"), "role") = JStr(S_assistant)
       THEN \A k \in DOMAIN types : types[k] \in {"tool_summary", "text_response"}
  ELSE IF /\ Get(entry, "type") = JStr(S_user)
          /\ OptGet(Get(entry, "message"), "role") = JStr(S_user)
       THEN types \in {<<>>, <<"user_message">>}
  ELSE types = <<>>

\* C10: classification is first match wins, in the order permission request,
\* input request, standalone tool_use, assistant message, user message: the
\* messages of every parsed entry are those of its first matching category
\* alone (one permission_request, one input_request, one tool_summary, ...).
C10_FirstMatchWins ==
  ParsedAndReturned =>
    \A o \in SegStarts(file, ParsedFrom, ContentEnd) :
      LET entry == JsonParse(Trim(SegmentAt(file, o, ContentEnd)))
      IN Tag(entry) = "object" => CategoryRule(entry, TypesAt(o))

C10_Witness ==
  /\ ParsedAndReturned
  /\ \E o \in SegStarts(file, ParsedFrom, ContentEnd) :
       /\ Trim(SegmentAt(file, o, ContentEnd)) = TextOf("toolperm")
       /\ TypesAt(o) = <<"permission_request">>
  /\ \E o \in SegStarts(file, ParsedFrom, ContentEnd) :
       /\ Trim(SegmentAt(file, o, ContentEnd)) = TextOf("asstinput")
       /\ TypesAt(o) = <<"input_request">>

(***************************************************************************)
(* Properties of the loop body on one entry (SpecEntry)                    *)
(***************************************************************************)
\* the loop body has run on logEntry
Ran == "pending" \notin DOMAIN emitted

\* the loop body has run on logEntry and did not throw
RanAndPushed == Ran /\ ~emitted.threw

EntryContent == OptGet(Get(logEntry, "message"), "content")

\* logEntry is handled as an assistant message, respectively a user message
AssistantCase ==
  /\ Get(logEntry, "type") = JStr(S_assistant)
  /\ OptGet(Get(logEntry, "message"), "role") = JStr(S_assistant)
  /\ Get(logEntry, "subtype") = Undefined
UserCase ==
  /\ Get(logEntry, "type") = JStr(S_user)
  /\ OptGet(Get(logEntry, "message"), "role") = JStr(S_user)
  /\ Get(logEntry, "subtype") = Undefined

\* a tool_use block with a name, and a text block with a text, of the log format
NamedToolUse(b) ==
  Tag(b) = "object" /\ Get(b, "type") = JStr(S_tool_use) /\ Tag(Get(b, "name")) = "string"
TextWithText(b) ==
  Tag(b) = "object" /\ Get(b, "type") = JStr(<<"t", "e", "x", "t">>)
    /\ Tag(Get(b, "text")) = "string"

\* the texts of the text blocks joined with a line break
JoinedText(blocks) ==
  LET texts == SelectSeq(blocks, TextWithText)
  IN Join([i \in 1..Len(texts) |-> Get(texts[i], "text")[2]], <<"\n">>)

\* C11: an assistant entry with a block sequence emits one tool_summary per
\* tool_use block (a block with a name), in block order, followed by one
\* text_response holding the joined text when that text is not empty, and
\* nothing else; so with no text and no tool_use block it emits nothing.
C11_ToolsThenText ==
  (RanAndPushed /\ AssistantCase /\ IsArray(EntryContent)) =>
    LET tools == SelectSeq(EntryContent[2], NamedToolUse)
        text == JoinedText(EntryContent[2])
        msgs == emitted.msgs
    IN /\ Len(msgs) = Len(tools) + (IF text # <<>> THEN 1 ELSE 0)
       /\ \A k \in 1..Len(tools) :
            /\ msgs[k].type = "tool_summary"
            /\ Get(msgs[k].metadata, "toolName") = Get(tools[k], "name")
       /\ text # <<>> =>
            /\ msgs[Len(msgs)].type = "text_response"
            /\ msgs[Len(msgs)].content = JStr(text)

\* a text block ahead of two different tool_use blocks and a second text block
C11_Witness ==
  /\ RanAndPushed /\ AssistantCase /\ IsArray(EntryContent)
  /\ Len(EntryContent[2]) = 3
  /\ TextWithText(EntryContent[2][1])
  /\ NamedToolUse(EntryContent[2][2])
  /\ TextWithText(EntryContent[2][3])
  /\ Len(emitted.msgs) = 2
  /\ emitted.msgs[1].type = "tool_summary"
  /\ emitted.msgs[2].content = JStr(T_ok \o <<"\n">> \o T_Hi)

\* the text a user entry's content holds: the string, or the joined text
UserText(content) ==
  IF IsString(content) THEN content[2]
  ELSE IF IsArray(content) THEN JoinedText(content[2])
  ELSE <<>>

\* content is a block sequence with a block of this type
HoldsBlock(content, kind) ==
  /\ IsArray(content)
  /\ \E i \in 1..Len(content[2]) :
       Tag(content[2][i]) = "object" /\ Get(content[2][i], "type") = JStr(kind)

\* C12: a user entry that is meta, or whose block sequence holds a
\* tool_result block, or whose text starts with the interrupt marker, emits
\* no user_message.
C12_UserFilter ==
  (Ran /\ Get(logEntry, "type") = JStr(S_user)
       /\ \/ Truthy(Get(logEntry, "isMeta"))
          \/ HoldsBlock(EntryContent, S_tool_result)
          \/ StartsWith(UserText(EntryContent), S_RequestInterrupted)) =>
    \A i \in DOMAIN emitted.msgs : emitted.msgs[i].type # "user_message"

\* a user entry, not meta, with a text block and a tool_result block
C12_Witness ==
  /\ RanAndPushed /\ UserCase
  /\ ~Truthy(Get(logEntry, "isMeta"))
  /\ HoldsBlock(EntryContent, S_tool_result)
  /\ UserText(EntryContent) = T_Hi
  /\ emitted.msgs = <<>>

\* C13: every emitted message, of every type, has a content that is not
\* empty.
C13_ContentNotEmpty ==
  Ran => \A i \in DOMAIN emitted.msgs :
           IsString(emitted.msgs[i].content) /\ emitted.msgs[i].content[2] # <<>>

(***************************************************************************)
(* Properties of a call on a file (SpecParse), continued                   *)
(***************************************************************************)
\* the position of a character in the order that compares timestamps
CharRank(ch) == CHOOSE d \in 0..9 : DigitChar(d) = ch

RECURSIVE StrLeq(_, _)
\* s <= t for two strings of digits, as string comparison orders them
StrLeq(s, t) ==
  IF s = <<>> THEN TRUE
  ELSE IF t = <<>> THEN FALSE
  ELSE IF Head(s) # Head(t) THEN CharRank(Head(s)) < CharRank(Head(t))
  ELSE StrLeq(Tail(s), Tail(t))

\* the lines that are well-formed entries with an explicit timestamp
StampedTexts == {TextOf(name) : name \in {"user", "asst", "tool"}}

\* the offsets of the lines of the whole file (the empty end after the last
\* line break is no line)
FileLines == {o \in SegStarts(file, 0, Len(file)) : o < Len(file)}

\* every line of the file is a well-formed entry with an explicit timestamp
AllStamped == \A o \in FileLines : SegmentAt(file, o, Len(file)) \in StampedTexts

\* the timestamp of the entry on the line at offset o
StampAt(o) == Get(JsonParse(SegmentAt(file, o, Len(file))), "timestamp")[2]

\* the log is written in time order
Chronological ==
  \A o1, o2 \in FileLines : o1 < o2 => StrLeq(StampAt(o1), StampAt(o2))

\* the returned messages are in non-decreasing timestamp order
StampsAscend ==
  \A i, j \in DOMAIN result.messages :
    i < j => StrLeq(result.messages[i].timestamp[2], result.messages[j].timestamp[2])

\* C14 as stated: for a file of well-formed entries that all carry an
\* explicit timestamp, the returned messages are in non-decreasing timestamp
\* order.
C14_TimestampOrder == (ParsedAndReturned /\ AllStamped) => StampsAscend

\* C14 amended: for a file of well-formed entries that all carry an explicit
\* timestamp and are written in non-decreasing timestamp order, the returned
\* messages are in non-decreasing timestamp order.
C14_ChronologicalLog == (ParsedAndReturned /\ AllStamped /\ Chronological) => StampsAscend

\* two lines with different timestamps, both returned
C14_Witness ==
  /\ ParsedAndReturned /\ AllStamped /\ Chronological
  /\ \E i, j \in DOMAIN result.messages :
       /\ i < j
       /\ result.messages[i].timestamp = T_1
       /\ result.messages[j].timestamp = T_2

\* the file holds nothing but blanks and line breaks
WhitespaceOnly(f) == f # <<>> /\ \A i \in 1..Len(f) : f[i] \in {NL, SP}

\* C16: for an empty file a call from 0 returns no messages and bytesRead 0;
\* for a file of blank and whitespace-only lines it returns no messages and
\* bytesRead equal to the file size (the size seen by the size check, which
\* is the size of the file when nothing was appended since).
C16_EmptyOrBlankFile ==
  /\ (pc = "idle" /\ how # "none" /\ fromByte = 0 /\ exists /\ file = <<>>) =>
       /\ result.status = "returned"
       /\ result.messages = <<>>
       /\ result.bytesRead = 0
  /\ (Completed("parsed") /\ fromByte = 0 /\ WhitespaceOnly(file)) =>
       /\ result.status = "returned"
       /\ result.messages = <<>>
       /\ result.bytesRead = fileSize
       /\ fresh => result.bytesRead = Len(file)

\* a file of a blank line and empty lines, read whole
C16_Witness ==
  /\ Completed("parsed") /\ fromByte = 0 /\ WhitespaceOnly(file)
  /\ \E i \in 1..Len(file) : file[i] = SP
  /\ Cardinality({i \in 1..Len(file) : file[i] = NL}) >= 2
  /\ fresh
  /\ result.bytesRead = Len(file)

(***************************************************************************)
(* Properties of the loop body on one entry (SpecEntry), continued         *)
(***************************************************************************)
\* logEntry is handled as a standalone tool use
ToolCase == Get(logEntry, "type") = JStr(S_tool_use) /\ Get(logEntry, "subtype") = Undefined

\* the command of a Bash entry: the string, or the empty string when absent
BashCommand ==
  LET input == Get(logEntry, "tool_input")
  IN IF Tag(input) = "object" /\ Tag(Get(input, "command")) = "string"
     THEN Get(input, "command")[2]
     ELSE <<>>

\* the command of a Bash entry is a string, or there is none
CommandIsText == Tag(Get(Get(logEntry, "tool_input"), "command")) \in {"string", "undefined"}

\* C17: the Bash summary is "Ran " and the first 50 characters of the command
\* and "..." when the command is longer than 50 characters, "Ran " and the
\* whole command when it has 1 to 50 characters, and "Ran command" when the
\* command is empty or absent.
C17_BashSummary ==
  (RanAndPushed /\ ToolCase /\ Get(logEntry, "tool_name") = JStr(S_Bash) /\ CommandIsText) =>
    LET command == BashCommand
        summary == emitted.msgs[1].content[2]
    IN /\ Len(command) > 50 =>
            /\ Len(summary) = 4 + 50 + 3
            /\ \A i \in 1..50 : summary[4 + i] = command[i]
            /\ SubSeq(summary, 1, 4) = <<"R", "a", "n", " ">>
            /\ SubSeq(summary, 55, 57) = <<".", ".", ".">>
       /\ Len(command) \in 1..50 => summary = <<"R", "a", "n", " ">> \o command
       /\ Len(command) = 0 =>
            summary = <<"R", "a", "n", " ", "c", "o", "m", "m", "a", "n", "d">>

\* a command of 51 characters
C17_Witness ==
  /\ RanAndPushed /\ ToolCase /\ Get(logEntry, "tool_name") = JStr(S_Bash)
  /\ Len(BashCommand) = 51
  /\ Len(emitted.msgs[1].content[2]) = 57

\* the metadata of a tool summary for this name and input
ToolMetadata(name, input) ==
  JObj([toolName |-> IF name = Undefined THEN JStr(<<"u", "n", "k", "n", "o", "w", "n">>)
                     ELSE name,
        toolInput |-> IF input = Undefined THEN JObj(<<>>) ELSE input])

\* C18: a standalone tool_use entry emits exactly one tool_summary; every
\* tool_summary, from such an entry or from a tool_use block of an assistant
\* entry, carries the metadata {toolName, toolInput} of the name and input
\* its summary is rendered from, the name defaulting to "unknown" and the
\* input to the empty map.
C18_ToolMetadata ==
  /\ (RanAndPushed /\ ToolCase) =>
       /\ Len(emitted.msgs) = 1
       /\ emitted.msgs[1].type = "tool_summary"
       /\ emitted.msgs[1].metadata =
            ToolMetadata(Get(logEntry, "tool_name"), Get(logEntry, "tool_input"))
  /\ (RanAndPushed /\ AssistantCase /\ IsArray(EntryContent)) =>
       LET tools == SelectSeq(EntryContent[2], NamedToolUse)
       IN \A k \in 1..Len(tools) :
            emitted.msgs[k].metadata =
              ToolMetadata(Get(tools[k], "name"), Get(tools[k], "input"))
  /\ Ran => \A i \in DOMAIN emitted.msgs :
       emitted.msgs[i].type = "tool_summary" =>
         emitted.msgs[i].content =
           formatToolSummary(Get(emitted.msgs[i].metadata, "toolName"),
                             Get(emitted.msgs[i].metadata, "toolInput"))

\* a standalone entry with neither tool_name nor tool_input
C18_Witness ==
  /\ RanAndPushed /\ ToolCase
  /\ Get(logEntry, "tool_name") = Undefined
  /\ Get(logEntry, "tool_input") = Undefined
  /\ Len(emitted.msgs) = 1
  /\ Get(emitted.msgs[1].metadata, "toolName") = JStr(S_unknown)
  /\ emitted.msgs[1].content = JStr(S_unknown)

\* C19: every message of an entry that has a timestamp carries that
\* timestamp, all messages of one entry carry the same timestamp, and the
\* messages of an entry without one carry the time of the parse.
C19_Timestamp ==
  Ran =>
    LET stamp == Get(logEntry, "timestamp")
    IN /\ ~IsNullish(stamp) =>
            \A i \in DOMAIN emitted.msgs : emitted.msgs[i].timestamp = stamp
       /\ IsNullish(stamp) =>
            \A i \in DOMAIN emitted.msgs : emitted.msgs[i].timestamp = Now(calls)
       /\ \A i, j \in DOMAIN emitted.msgs :
            emitted.msgs[i].timestamp = emitted.msgs[j].timestamp

\* an assistant entry with a timestamp, two tool summaries and a text response
C19_Witness ==
  /\ RanAndPushed /\ AssistantCase
  /\ Get(logEntry, "timestamp") = T_1
  /\ Len(emitted.msgs) = 3
  /\ emitted.msgs[1].type = "tool_summary"
  /\ emitted.msgs[2].type = "tool_summary"
  /\ emitted.msgs[3].type = "text_response"
  /\ \A i \in 1..3 : emitted.msgs[i].timestamp = T_1

\* a user entry that passes the filters and has a text
UserSurvives ==
  /\ UserCase
  /\ ~Truthy(Get(logEntry, "isMeta"))
  /\ ~HoldsBlock(EntryContent, S_tool_result)
  /\ UserText(EntryContent) # <<>>
  /\ ~StartsWith(UserText(EntryContent), S_RequestInterrupted)

\* C20: a user entry that passes the filters and has a text emits exactly
\* one user_message with that text, whose metadata is {hasImages: true} when
\* the block sequence holds an image block and empty otherwise.
C20_UserMessage ==
  (RanAndPushed /\ UserSurvives) =>
    /\ Len(emitted.msgs) = 1
    /\ emitted.msgs[1].type = "user_message"
    /\ emitted.msgs[1].content = JStr(UserText(EntryContent))
    /\ emitted.msgs[1].metadata =
         (IF HoldsBlock(EntryContent, S_image) THEN JObj([hasImages |-> JBool(TRUE)])
          ELSE JObj(<<>>))

\* a text block and an image block
C20_Witness ==
  /\ RanAndPushed /\ UserSurvives
  /\ HoldsBlock(EntryContent, S_image)
  /\ Len(emitted.msgs) = 1
  /\ Get(emitted.msgs[1].metadata, "hasImages") = JBool(TRUE)

(***************************************************************************)
(* Properties of two concurrent calls (SpecConcurrent)                     *)
(***************************************************************************)
\* what a call from `from` returns when it runs alone on a file that held
\* `size` bytes at its size check and `len` bytes at its read
AloneParsed(from, size, len, now) ==
  ParseContent(IF from = 0 THEN SubSeq(file, 1, len) ELSE SubSeq(file, from + 1, size),
               from, size, now)
AloneNoData(from) == Returned(<<>>, from, <<>>)
AloneMissing == Returned(<<>>, 0, <<>>)

EntryRole == OptGet(Get(logEntry, "message"), "role")

\* logEntry has a type that no category names
UnrecognizedType ==
  Get(logEntry, "type") \notin
    {JStr(S_permission_request), JStr(S_tool_use), JStr(S_assistant), JStr(S_user)}

\* C21: an entry without a permission or input subtype emits no message and
\* raises no error when its type is not a recognized one, when its type is
\* assistant and the role of its message is not assistant, and when its type
\* is user and the role of its message is not user.
C21_UnmatchedDropped ==
  (/\ Ran
   /\ Get(logEntry, "subtype") = Undefined
   /\ \/ UnrecognizedType
      \/ Get(logEntry, "type") = JStr(S_assistant) /\ EntryRole # JStr(S_assistant)
      \/ Get(logEntry, "type") = JStr(S_user) /\ EntryRole # JStr(S_user)) =>
    ~emitted.threw /\ emitted.msgs = <<>>

\* an assistant entry whose message has the role user and a text
C21_Witness ==
  /\ RanAndPushed
  /\ Get(logEntry, "type") = JStr(S_assistant)
  /\ EntryRole = JStr(S_user)
  /\ EntryContent = JStr(T_Hi)
  /\ emitted.msgs = <<>>

\* logEntry is handled as a permission request, respectively an input request
PermissionCase ==
  \/ Get(logEntry, "type") = JStr(S_permission_request)
  \/ Get(logEntry, "subtype") = JStr(S_permission_request)
InputCase == Get(logEntry, "subtype") = JStr(S_input_request) /\ ~PermissionCase

\* the text the message of logEntry holds: the string, or the joined text of
\* the text blocks when there is one; Null when it holds none
MessageText ==
  IF IsString(EntryContent) THEN EntryContent
  ELSE IF IsArray(EntryContent) /\ SelectSeq(EntryContent[2], TextWithText) # <<>>
       THEN JStr(JoinedText(EntryContent[2]))
  ELSE Null

\* C22: a permission-request entry emits exactly one permission_request whose
\* content is the permission_prompt when the entry has one, else the text of
\* its message when it has one, else "Permission requested"; an input-request
\* entry emits exactly one input_request whose content is the text of its
\* message when it has one, else "Waiting for input".
C22_RequestContent ==
  /\ (RanAndPushed /\ PermissionCase) =>
       /\ Len(emitted.msgs) = 1
       /\ emitted.msgs[1].type = "permission_request"
       /\ emitted.msgs[1].content =
            (IF ~IsNullish(Get(logEntry, "permission_prompt"))
             THEN Get(logEntry, "permission_prompt")
             ELSE IF MessageText # Null THEN MessageText
             ELSE JStr(<<"P", "e", "r", "m", "i", "s", "s", "i", "o", "n", " ",
                         "r", "e", "q", "u", "e", "s", "t", "e", "d">>))
  /\ (RanAndPushed /\ InputCase) =>
       /\ Len(emitted.msgs) = 1
       /\ emitted.msgs[1].type = "input_request"
       /\ emitted.msgs[1].content =
            (IF MessageText # Null THEN MessageText
             ELSE JStr(<<"W", "a", "i", "t", "i", "n", "g", " ", "f", "o", "r", " ",
                         "i", "n", "p", "u", "t">>))

\* a permission request with both a prompt and a message text
C22_Witness ==
  /\ RanAndPushed /\ PermissionCase
  /\ Get(logEntry, "permission_prompt") = JStr(T_ask)
  /\ MessageText = JStr(T_ok)
  /\ emitted.msgs[1].content = JStr(T_ask)

\* logEntry is a standalone Edit whose old_string and new_string are strings
\* or absent
EditCase ==
  /\ ToolCase
  /\ Get(logEntry, "tool_name") = JStr(S_Edit)
  /\ Tag(Get(logEntry, "tool_input")) = "object"
  /\ Tag(Get(Get(logEntry, "tool_input"), "old_string")) \in {"string", "undefined"}
  /\ Tag(Get(Get(logEntry, "tool_input"), "new_string")) \in {"string", "undefined"}

\* the number of lines of a string: 0 when absent or empty, else one more
\* than the number of its line breaks
LinesIn(str) ==
  IF Tag(str) # "string" \/ str[2] = <<>> THEN 0
  ELSE 1 + Cardinality({i \in 1..Len(str[2]) : str[2][i] = "\n"})

\* the number printed after the first occurrence of the sign in the summary
CountAfter(summary, sign) == CharRank(summary[IndexOf(summary, sign) + 2])

\* C23: the Edit summary ends in "+A/-R lines" with A = max(0, new - old) and
\* R = max(0, old - new), old and new being the line counts of old_string and
\* new_string (0 for an empty or absent string); A and R are not negative,
\* at most one of them is not 0, and equal line counts give +0/-0.
C23_EditCounts ==
  (RanAndPushed /\ EditCase) =>
    LET oldLines == LinesIn(Get(Get(logEntry, "tool_input"), "old_string"))
        newLines == LinesIn(Get(Get(logEntry, "tool_input"), "new_string"))
        summary == emitted.msgs[1].content[2]
        A == CountAfter(summary, "+")
        R == CountAfter(summary, "-")
    IN /\ A = (IF newLines > oldLines THEN newLines - oldLines ELSE 0)
       /\ R = (IF oldLines > newLines THEN oldLines - newLines ELSE 0)
       /\ A >= 0 /\ R >= 0
       /\ A = 0 \/ R = 0
       /\ oldLines = newLines => A = 0 /\ R = 0
       /\ SubSeq(summary, 1, 7) = <<"E", "d", "i", "t", "e", "d", " ">>
       /\ SubSeq(summary, Len(summary) - 11, Len(summary)) =
            <<" ", "+", DigitChar(A), "/", "-", DigitChar(R), " ", "l", "i", "n", "e", "s">>

\* an old_string of three lines replaced by an empty new_string
C23_Witness ==
  /\ RanAndPushed /\ EditCase
  /\ LinesIn(Get(Get(logEntry, "tool_input"), "old_string")) = 3
  /\ Get(Get(logEntry, "tool_input"), "new_string") = JStr(<<>>)
  /\ CountAfter(emitted.msgs[1].content[2], "-") = 3
  /\ CountAfter(emitted.msgs[1].content[2], "+") = 0

(***************************************************************************)
(* Properties of the awaits of one call (SpecRead)                         *)
(***************************************************************************)
\* a step of the call (a step of the writer changes none of these)
ParserStep ==
  calls' # calls \/ pc' # pc \/ handle' # handle \/ result' # result \/ pending' # pending

\* C24: no step of a call changes the log file or creates or removes it, and
\* when a call returns, on the success path or on a failure path, the file
\* handle it opened is closed.
C24_FileUntouched ==
  [][ParserStep =>
       /\ file' = file
       /\ exists' = exists
       /\ pc' = "idle" => handle' # "open"]_vars

\* the call opened a handle, its read failed, and it has returned
C24_Witness ==
  /\ Completed("io_error")
  /\ handle = "closed"
  /\ fromByte > 0
  /\ file # <<>>
  /\ result.status = "returned"

(***************************************************************************)
(* Properties of the services singleton (SpecServices)                     *)
(***************************************************************************)
\* the initialization the promise belongs to has failed
Failed(i) == inits[i].outer = "rejected"

\* C25: initialization runs again only after the run before it failed; the
\* cache is empty exactly when no run was started or the latest one failed;
\* every caller whose promise has not failed holds the promise of the latest
\* run (so callers during a pending or after a successful initialization
\* share one promise); and every caller whose await of a failed promise has
\* ended saw the failure.
C25_SingleInit ==
  /\ \A i, j \in DOMAIN inits : i < j => Failed(i)
  /\ servicesPromise = 0 <=> (inits = <<>> \/ Failed(Len(inits)))
  /\ servicesPromise # 0 => servicesPromise = Len(inits)
  /\ \A c \in Callers :
       /\ (got[c] # 0 /\ ~Failed(got[c])) => got[c] = Len(inits)
       /\ (got[c] # 0 /\ saw[c] # "none") => (saw[c] = "failure" <=> Failed(got[c]))

\* two callers awaited a first initialization that failed; a third call
\* started a second one, which succeeded
C25_Witness ==
  /\ Len(inits) = 2
  /\ Failed(1)
  /\ inits[2].outer = "fulfilled"
  /\ \E c1, c2, c3 \in Callers :
       /\ c1 # c2
       /\ got[c1] = 1 /\ got[c2] = 1 /\ got[c3] = 2
       /\ saw[c1] = "failure" /\ saw[c2] = "failure" /\ saw[c3] = "services"

(***************************************************************************)
(* Properties of the auth middleware (SpecAuth)                            *)
(***************************************************************************)
\* the request is GET /api/v1/health
HealthCheck ==
  req.method = "GET"
    /\ req.path = <<"/", "a", "p", "i", "/", "v", "1", "/", "h", "e", "a", "l", "t", "h">>

\* the x-api-key of the request is the key the loaded hash was made of
KeyMatches ==
  \E n \in 1..MaxKeys : req.apiKey = JStr(ApiKey(n)) /\ keyHash = HashOf(ApiKey(n))

\* C26: next() is called only for GET /api/v1/health and for a request whose
\* x-api-key matches the loaded hash, and at most once; when the middleware
\* is done with any other request, or with one whose comparison threw, it
\* has sent exactly one response and has not called next(): 500
\* AUTH_NOT_CONFIGURED when no key hash was loaded, 401 otherwise.
C26_AuthGate ==
  /\ nextCalled > 0 => (HealthCheck \/ KeyMatches)
  /\ nextCalled <= 1
  /\ (authPc = "done" /\ (~(HealthCheck \/ KeyMatches) \/ compared = "threw")) =>
       /\ nextCalled = 0
       /\ Len(res) = 1
       /\ keyHash = Null => res[1] = [status |-> 500, code |-> "AUTH_NOT_CONFIGURED"]
       /\ keyHash # Null => res[1].status = 401

\* a POST to the health path without a key, with a hash loaded
C26_Witness ==
  /\ authPc = "done"
  /\ req.method = "POST"
  /\ req.path = <<"/", "a", "p", "i", "/", "v", "1", "/", "h", "e", "a", "l", "t", "h">>
  /\ req.apiKey = Undefined
  /\ keyHash = HashOf(ApiKey(1))
  /\ res = <<[status |-> 401, code |-> "MISSING_API_KEY"]>>
  /\ nextCalled = 0

(***************************************************************************)
(* Properties of the session detail handler (SpecSession)                  *)
(***************************************************************************)
\* the PR enrichment has completed: it was started and its three plugin
\* calls have settled
PrCompleted(pl) == \A call \in {"ci", "review", "merge"} : pl[call] \in {"fulfilled", "rejected"}

\* the body to send when the plugin calls are in the states pl: the base
\* data, the fields of the PR enrichment when it has completed (the default
\* for a call of it that failed), the cost when the agent call has completed
\* with one, and the defaults otherwise
BodyFor(pl) ==
  [id |-> "s-1",
   pr |-> session.pr,
   ciStatus |-> IF PrCompleted(pl) /\ pl.ci = "fulfilled" THEN "passing" ELSE "none",
   reviewDecision |-> IF PrCompleted(pl) /\ pl.review = "fulfilled" THEN "approved" ELSE "none",
   mergeable |-> PrCompleted(pl) /\ pl.merge = "fulfilled",
   cost |-> IF pl.info = "fulfilled" THEN "cost" ELSE "null"]

\* C27: the detail handler of an existing session sends, at the moment it
\* answers, status 200 with the base data, the fields of every enrichment
\* that has completed by then, and the defaults (ciStatus none,
\* reviewDecision none, mergeable false, cost null) for one that failed or
\* has not completed; it sends no second response and never changes the one
\* it sent; and it answers in the end, whatever the plugin calls do.
C27_PartialData ==
  /\ [][IF replies = <<>>
         THEN replies' # <<>> => replies' = <<[status |-> 200, body |-> BodyFor(plugins')]>>
         ELSE replies' = replies]_vars
  /\ <>(Len(replies) = 1)

\* the timer fired while getReviewDecision was pending: the cost, which had
\* arrived, is in the answer, and the PR fields are the defaults
C27_Witness ==
  /\ timer = "fired"
  /\ Len(replies) = 1
  /\ replies[1].status = 200
  /\ replies[1].body.cost = "cost"
  /\ replies[1].body.pr
  /\ replies[1].body.ciStatus = "none"
  /\ plugins.ci = "fulfilled"
  /\ plugins.review = "pending"

(***************************************************************************)
(* Properties of the returned offset (Spec)                                *)
(***************************************************************************)
\* a call has returned a result
CallReturned == pc = "idle" /\ how # "none" /\ result.status = "returned"

\* C28: the bytesRead a call returns is never below the fromByte it was
\* given, whatever the state of the file (missing, unreadable, not longer
\* than fromByte, growing).
C28_OffsetNeverBackwards == CallReturned => result.bytesRead >= fromByte

\* C29: every returned message derives from a line that starts at or after
\* the fromByte of the call and before the bytesRead it returns, also when
\* the writer appends between the size check and the read, for fromByte = 0
\* as for fromByte > 0.
C29_WithinOffsets ==
  CallReturned =>
    \A i \in 1..Len(result.origins) :
       /\ result.origins[i] >= fromByte
       /\ result.origins[i] < result.bytesRead

\* the caller starts a poll
PollStarts == pc = "idle" /\ calls' = calls + 1

\* C30: when the file exists and the caller's offset equals the file size, a
\* poll that meets no I/O failure returns no messages and bytesRead equal to
\* its fromByte and leaves the caller's offset where it was, so that, as
\* long as nothing is appended, every later poll starts from the same state
\* and returns the same result.
C30_FixedPoint ==
  [][(exists /\ nextFrom = Len(file) /\ PollStarts /\ how' # "io_error") =>
       /\ pc' = "idle"
       /\ fromByte' = nextFrom
       /\ result' = Returned(<<>>, nextFrom, <<>>)
       /\ nextFrom' = nextFrom
       /\ file' = file]_vars

\* the last of the polls found a log with content it had been told to
\* resume at the end of, after an earlier poll had returned the same
C30_Witness ==
  /\ calls = MaxPolls
  /\ Completed("no_data")
  /\ Len(file) > 0
  /\ fromByte = Len(file)
  /\ nextFrom = Len(file)
  /\ result = Returned(<<>>, Len(file), <<>>)
  /\ delivered # {}
  /\ settled

=============================================================================
